---- MODULE Spec2Model ----
(***************************************************************************)
(* NovaAI backend (hernandezl/novaai-backend-v2): the provider-fallback    *)
(* orchestration of the /api/generate and /generate handlers.              *)
(*                                                                         *)
(* Every variant in the repository is a self-contained Express handler.    *)
(* One request is served by one handler; a handler is modelled as a        *)
(* sequential program whose position is pc.  Each outbound call is two     *)
(* steps: the call is issued (logged in calls as pending) and, at the      *)
(* await, the provider's answer arrives (any answer the provider can       *)
(* give).  JavaScript values are modelled by kind and origin.              *)
(***************************************************************************)
EXTENDS Integers, Sequences, FiniteSets, TLC

VARIABLES
  handler,   \* which variant serves the request
  env,       \* process environment: API credentials and switches
  req,       \* the request body
  pc,        \* position of the handler
  loc,       \* the handler's local variables
  calls,     \* outbound calls issued so far, with the answer of each
  logged,    \* providers whose failure was written to the console
  resp,      \* HTTP responses sent for the request
  served,    \* requests the process has finished with
  disk,      \* the files under outputs/: path and whose bytes each holds
  now        \* the wall clock, in seconds

vars == <<handler, env, req, pc, loc, calls, logged, resp, served, disk, now>>

----------------------------------------------------------------------------
(* JavaScript values: kind and the provider the value came from.          *)

Val(k, p) == [k |-> k, src |-> p]
Null      == Val("null", "none")
Undef     == Val("undef", "none")

\* !!v
Truthy(v) == v.k \notin {"null", "undef", "empty"}
\* Array.isArray(v)
IsArray(v) == v.k \in {"arr1", "arr0", "arrnull", "arrobj"}
\* v.length of an array
ArrLen(v) == IF v.k \in {"arr1", "arrnull", "arrobj"} THEN 1 ELSE 0
\* typeof v === "string"
IsString(v) == v.k \in {"url", "svg", "blank", "empty", "noise", "dataurl", "databad", "char"}
\* v[0]
Elem0(v) ==
  CASE v.k = "arr1"    -> Val("url", v.src)
    [] v.k = "arrnull" -> Null
    [] v.k = "arrobj"  -> Val("obj", v.src)
    [] v.k \in {"url", "svg", "blank", "noise", "dataurl", "databad"} -> Val("char", v.src)
    [] OTHER           -> Undef
\* v || null
OrNull(v) == IF Truthy(v) THEN v ELSE Null
\* a || b
Or(a, b) == IF Truthy(a) THEN a ELSE b

\* An image reference a browser can display: a URL, a data URL or inline SVG.
IsImage(v) == v.k \in {"url", "dataurl", "svg", "b64"}
\* A response field that carries a value at all (JSON drops undefined).
Present(v) == Truthy(v)

----------------------------------------------------------------------------
(* What providers can answer.                                              *)

\* replicate.run(model, {input}): rejects, or resolves to the model output.
RunOutcomes == {"throw", "arr1", "arr0", "arrnull", "str", "null"}
\* methexis-inc/img2svg may also resolve to SVG text or to blank text.
VecOutcomes == RunOutcomes \cup {"svg", "blank"}
\* fetch to api.openai.com: network error, non-2xx with an error payload,
\* 2xx with data[0].b64_json, 2xx with data[0].url only, 2xx with data: [].
HttpOutcomes == {"neterr", "nonok", "ok_b64", "ok_url", "ok_empty"}
\* fetch of a reference image.
DlOutcomes == {"neterr", "nonok", "ok"}

\* The value replicate.run resolves to.
RunValue(p, o) ==
  CASE o = "arr1"    -> Val("arr1", p)
    [] o = "arr0"    -> Val("arr0", p)
    [] o = "arrnull" -> Val("arrnull", p)
    [] o = "arrobj"  -> Val("arrobj", p)
    [] o = "str"     -> Val("url", p)
    [] o = "svg"     -> Val("svg", p)
    [] o = "blank"   -> Val("blank", p)
    [] OTHER         -> Null

\* if(Array.isArray(out) && out.length) x = out[0]; else if(typeof out === "string") x = out;
\* (x keeps its previous value otherwise)
FirstOrString(out, prev) ==
  IF IsArray(out) /\ ArrLen(out) > 0 THEN Elem0(out)
  ELSE IF IsString(out) THEN out
  ELSE prev

\* Array.isArray(out) ? out[0] : out
FirstIfArray(out) == IF IsArray(out) THEN Elem0(out) ELSE out

----------------------------------------------------------------------------
(* The call log.                                                           *)

Call(p, path) == [p |-> p, path |-> path, out |-> "pending"]

InFlight == {i \in 1..Len(calls) : calls[i].out = "pending"}

\* Issue an outbound call: it is logged and now in flight.
Issue(p, path) == calls' = Append(calls, Call(p, path))

\* The answer o to the call issued last arrives.
Answer(o) == calls' = [calls EXCEPT ![Len(calls)].out = o]

Awaiting(p) == Len(calls) > 0 /\ calls[Len(calls)].p = p /\ calls[Len(calls)].out = "pending"

Called(p) == \E i \in 1..Len(calls) : calls[i].p = p

\* res.status(s).json({...})
Response(s, owner, customer, image, used, errs) ==
  [status |-> s, owner |-> owner, customer |-> customer, image |-> image,
   used |-> used, errs |-> errs, detail |-> "none"]

\* What an error body says about the failure: "provider" (the provider's own
\* error text, logs or prediction object), "status" (only the terminal status
\* word), "timeout" (a timeout error), "exception" (the message of a local
\* exception), "none" (a fixed text).
Detailed(r, d) == [r EXCEPT !.detail = d]

Send(r) == resp' = Append(resp, r)

\* An exception leaves the async handler function.  What happens then
\* depends on the Express release the server is deployed with, which the
\* repository does not pin: Express 4 ignores the rejected promise (an
\* unhandled rejection, no response is sent), Express 5 passes it to its
\* error handler, which answers 500.
Escaped ==
  \/ pc' = "unhandled" /\ UNCHANGED resp
  \/ pc' = "done" /\ Send(Response(500, Undef, Undef, Undef, "none", {}))

\* Terminal statuses of a Replicate prediction.
TerminalStatuses == {"succeeded", "failed", "canceled"}

\* What the latest polling of a prediction did: status fetches made, the
\* status last fetched, whether a status was fetched after a terminal one had
\* been seen (stale), whether a fetch or sleep was started with the polling
\* bound already reached (late), and the time spent in units of the poll
\* interval (elapsed).
PollInit ==
  [fetches |-> 0, last |-> "none", stale |-> FALSE, late |-> FALSE, elapsed |-> 0]

\* A status fetch that returned st and took d intervals.
Fetched(h, st, d) ==
  [h EXCEPT !.fetches = @ + 1,
            !.stale = @ \/ h.last \in TerminalStatuses,
            !.last = st,
            !.elapsed = @ + d]

\* A sleep of one interval, started with the bound reached or not.
Slept(h, reached) == [h EXCEPT !.late = @ \/ reached, !.elapsed = @ + 1]

LocInit ==
  [vector |-> Null, raster |-> Null, vecInput |-> Null, used |-> "none",
   base |-> FALSE, polls |-> 0, err |-> "none", poll |-> PollInit]

----------------------------------------------------------------------------
(* Requests and environments.                                              *)

Handlers ==
  {"v2plus", "dc_api", "p004", "server", "p000", "p006", "sdxl", "p007", "p002",
   "p003", "sr_v1", "sr_v3"}

Envs == [openaiKey : BOOLEAN, replicateToken : BOOLEAN, forceFallback : BOOLEAN]

\* prompt: a non-empty prompt is present; text: the prompt is a string (a
\* JSON body can carry a number or an object there); ref: the reference image
\* ("data": inline base64 / data URL, "http": remote URL); mode: the
\* mode / target field.
Reqs == [prompt : BOOLEAN, text : BOOLEAN, ref : {"none", "data", "http"},
         mode : {"both", "vector", "raster", "owner", "customer", "other", "missing"}]

\* Requests one process serves one after the other.
MaxRequests == 2

\* The mode / target values a handler distinguishes.
ModesOf(h) ==
  CASE h = "v2plus" -> {"both", "vector", "raster", "other"}
    [] h = "dc_api" -> {"owner", "customer", "other"}
    [] h = "p004"   -> {"owner", "customer", "other", "missing"}
    [] h = "server" -> {"owner", "customer", "both", "other"}
    [] OTHER        -> {"both"}

\* The handlers that call .trim() on the prompt outside any try block.
TrimsPrompt == {"server", "sdxl"}

\* The requests told apart for handler h.
RequestsOf(h) ==
  {r \in Reqs : /\ r.mode \in ModesOf(h)
                /\ r.text \/ (r.prompt /\ h \in TrimsPrompt)}

\* The environment variables a handler reads (the others are left set).
EnvReads(h) ==
  CASE h = "v2plus"                      -> {"openaiKey", "forceFallback"}
    [] h \in {"dc_api", "server", "p007"} -> {"openaiKey"}
    [] h \in {"p004", "p002", "p003"}     -> {"openaiKey", "replicateToken"}
    [] OTHER                             -> {}

EnvsOf(h) ==
  {e \in Envs : /\ ("openaiKey" \notin EnvReads(h) => e.openaiKey)
                /\ ("replicateToken" \notin EnvReads(h) => e.replicateToken)
                /\ ("forceFallback" \notin EnvReads(h) => ~e.forceFallback)}

Init ==
  /\ handler \in Handlers
  /\ env \in EnvsOf(handler)
  /\ req \in RequestsOf(handler)
  /\ pc = "start"
  /\ loc = LocInit
  /\ calls = << >>
  /\ logged = {}
  /\ resp = << >>
  /\ served = 0
  /\ disk = {}
  /\ now = 0

----------------------------------------------------------------------------
(* src/index.js, "NovaAI backend v2+": POST /api/generate.                 *)

\* A rejected promise / thrown Error, as the value of a call that threw.
Thrown == Val("thrown", "none")

\* genOpenAI after its fetch resolved or rejected with o.
genOpenAI(o) ==
  CASE o \in {"neterr", "nonok"} -> Thrown                  \* fetch rejects; !r.ok
    [] o = "ok_empty"            -> Thrown                  \* !j?.data?.length
    [] o = "ok_b64"              -> Val("dataurl", "openai")
    [] o = "ok_url"              -> Val("databad", "openai") \* `...base64,${undefined}`

\* genFluxFallback after replicate.run resolved or rejected with o.
genFluxFallback(o) ==
  LET out == RunValue("flux", o) IN
  IF o = "throw" THEN Thrown
  ELSE IF IsArray(out) /\ ArrLen(out) > 0 THEN Elem0(out)
  ELSE IF IsString(out) THEN out
  ELSE Thrown

\* raster_url?.startsWith("data:") ? OPENAI_IMAGE_MODEL : RASTER_FALLBACK
V2ModelRaster(raster) ==
  IF raster.k \in {"dataurl", "databad"} THEN "openai" ELSE "flux"

V2Receive ==
  /\ handler = "v2plus" /\ pc = "start"
  /\ IF ~req.prompt /\ req.ref = "none"
       THEN /\ Send(Response(400, Undef, Undef, Undef, "none", {}))
            /\ pc' = "done"
            /\ UNCHANGED <<loc, calls>>
       ELSE IF req.ref = "http"
         THEN /\ Issue("download", "aux")
              /\ pc' = "v2_download"
              /\ UNCHANGED <<loc, resp>>
         ELSE /\ loc' = [loc EXCEPT !.base = (req.ref = "data")]
              /\ pc' = "v2_vector"
              /\ UNCHANGED <<calls, resp>>
  /\ UNCHANGED <<disk, now, served, handler, env, req, logged>>

\* urlToBase64(source_url) inside try/catch
V2Download ==
  /\ handler = "v2plus" /\ pc = "v2_download"
  /\ \E o \in DlOutcomes :
       /\ Answer(o)
       /\ loc' = [loc EXCEPT !.base = (o = "ok")]
       /\ logged' = IF o = "ok" THEN logged ELSE logged \cup {"download"}
  /\ pc' = "v2_vector"
  /\ UNCHANGED <<disk, now, served, handler, env, req, resp>>

V2Vector ==
  /\ handler = "v2plus" /\ pc = "v2_vector"
  /\ IF req.mode \in {"both", "vector"}
       THEN Issue("recraft", "vector") /\ pc' = "v2_vector_wait"
       ELSE UNCHANGED calls /\ pc' = "v2_raster"
  /\ UNCHANGED <<disk, now, served, handler, env, req, loc, logged, resp>>

V2VectorReturn ==
  /\ handler = "v2plus" /\ pc = "v2_vector_wait"
  /\ \E o \in RunOutcomes :
       /\ Answer(o)
       /\ IF o = "throw"
            THEN logged' = logged \cup {"recraft"} /\ UNCHANGED loc
            ELSE /\ loc' = [loc EXCEPT !.vector = FirstOrString(RunValue("recraft", o), loc.vector)]
                 /\ UNCHANGED logged
  /\ pc' = "v2_raster"
  /\ UNCHANGED <<disk, now, served, handler, env, req, resp>>

\* Variant of the raster try block that skips the primary in every request.
V2RasterTargetSkipPrimary ==
  IF req.mode \in {"both", "raster"} THEN "v2_fallback" ELSE "v2_respond"

\* The raster try block up to its first await.
V2RasterTarget ==
  IF req.mode \in {"both", "raster"}
    THEN IF env.forceFallback \/ ~env.openaiKey THEN "v2_fallback" ELSE "v2_openai"
    ELSE "v2_respond"

V2Raster ==
  /\ handler = "v2plus" /\ pc = "v2_raster"
  /\ pc' = V2RasterTarget
  /\ logged' = IF V2RasterTarget = "v2_fallback" THEN logged \cup {"openai"} ELSE logged
  /\ UNCHANGED <<disk, now, served, handler, env, req, loc, calls, resp>>

V2OpenAI ==
  /\ handler = "v2plus" /\ pc = "v2_openai"
  /\ Issue("openai", "raster")
  /\ pc' = "v2_openai_wait"
  /\ UNCHANGED <<disk, now, served, handler, env, req, loc, logged, resp>>

V2OpenAIReturn ==
  /\ handler = "v2plus" /\ pc = "v2_openai_wait"
  /\ \E o \in HttpOutcomes :
       /\ Answer(o)
       /\ IF genOpenAI(o) = Thrown
            THEN /\ logged' = logged \cup {"openai"}
                 /\ pc' = "v2_fallback"
                 /\ UNCHANGED loc
            ELSE /\ loc' = [loc EXCEPT !.raster = genOpenAI(o)]
                 /\ pc' = "v2_respond"
                 /\ UNCHANGED logged
  /\ UNCHANGED <<disk, now, served, handler, env, req, resp>>

V2Fallback ==
  /\ handler = "v2plus" /\ pc = "v2_fallback"
  /\ Issue("flux", "raster")
  /\ pc' = "v2_flux_wait"
  /\ UNCHANGED <<disk, now, served, handler, env, req, loc, logged, resp>>

\* Flux outputs the handler is followed through: those of replicate.run and
\* an array of file objects, which newer releases of the SDK resolve to.
V2FluxOutcomes == RunOutcomes \cup {"arrobj"}

\* Variant of the inner catch that goes back to the fallback.
V2AfterFluxFailureRetries == "v2_fallback"

\* catch(e2){ err("[flux fallback]", ...) }: the failure is logged and the
\* handler goes on to its response.
V2AfterFluxFailure == "v2_respond"

V2FluxReturn ==
  /\ handler = "v2plus" /\ pc = "v2_flux_wait"
  /\ \E o \in V2FluxOutcomes :
       /\ Answer(o)
       /\ IF genFluxFallback(o) = Thrown
            THEN /\ logged' = logged \cup {"flux"}
                 /\ pc' = V2AfterFluxFailure
                 /\ UNCHANGED loc
            ELSE /\ loc' = [loc EXCEPT !.raster = genFluxFallback(o)]
                 /\ pc' = "v2_respond"
                 /\ UNCHANGED logged
  /\ UNCHANGED <<disk, now, served, handler, env, req, resp>>

V2Respond ==
  /\ handler = "v2plus" /\ pc = "v2_respond"
  /\ IF ~Truthy(loc.vector) /\ ~Truthy(loc.raster)
       THEN Send(Response(500, Undef, Undef, Undef, "none", {})) /\ pc' = "done"
       ELSE IF loc.raster.k = "obj"
         THEN Escaped                          \* raster_url.startsWith is not a function
         ELSE /\ Send(Response(200, OrNull(loc.vector), OrNull(loc.raster), Undef,
                               V2ModelRaster(loc.raster), {}))
              /\ pc' = "done"
  /\ UNCHANGED <<disk, now, served, handler, env, req, loc, calls, logged>>

V2Next ==
  \/ V2Receive \/ V2Download \/ V2Vector \/ V2VectorReturn \/ V2Raster
  \/ V2OpenAI \/ V2OpenAIReturn \/ V2Fallback \/ V2FluxReturn \/ V2Respond

----------------------------------------------------------------------------
(* src/index.js, "NovaAI Backend (Render-ready, OpenAI + Replicate)":      *)
(* the disk-cache backend, POST /api/generate.                             *)

\* normalizeAny(any): the first image found in the output, SVG text
\* re-encoded as a data URL; null when there is none.
normalizeAny(any) ==
  CASE any.k \in {"url", "dataurl", "databad"} -> any
    [] any.k = "svg"                           -> Val("dataurl", any.src)
    [] any.k = "arr1"                          -> Val("url", any.src)
    [] OTHER                                   -> Null

\* generateVector after replicate.run(VECTOR_MODEL) answered o.
generateVector(o) ==
  LET out == RunValue("recraft", o)
      img == Or(normalizeAny(out), out)
  IN IF o = "throw" \/ ~Truthy(img) THEN Thrown ELSE img

\* generateRealistic, OPENAI_KEY set: after the OpenAI fetch answered o.
generateRealisticOpenAI(o) ==
  CASE o = "neterr" -> Thrown
    [] o = "nonok"  -> Thrown                    \* OpenAI gen/edits <status>
    [] o = "ok_b64" -> Val("dataurl", "openai")
    [] OTHER        -> Thrown                    \* no image

\* generateRealistic, no OPENAI_KEY: after replicate.run(RASTER_MODEL) answered o.
generateRealisticFlux(o) ==
  LET out == RunValue("flux", o)
      img == Or(normalizeAny(out), IF IsArray(out) THEN Elem0(out) ELSE Null)
  IN IF o = "throw" \/ ~Truthy(img) THEN Thrown ELSE img

\* Variant of the provider choice with the two branches exchanged.
generateRealisticProviderSwapped == IF env.openaiKey THEN "flux" ELSE "openai"

\* The provider generateRealistic calls: if(OPENAI_KEY){...} else Replicate Flux.
generateRealisticProvider == IF env.openaiKey THEN "openai" ELSE "flux"

DcReceive ==
  /\ handler = "dc_api" /\ pc = "start"
  /\ IF ~req.prompt
       THEN /\ Send(Response(400, Undef, Undef, Undef, "none", {}))
            /\ pc' = "done" /\ UNCHANGED calls
       ELSE IF req.mode = "owner"
         THEN Issue("recraft", "vector") /\ pc' = "dc_vector_wait" /\ UNCHANGED resp
       ELSE IF req.mode = "customer"
         THEN /\ Issue(generateRealisticProvider, "raster")
              /\ pc' = IF generateRealisticProvider = "openai"
                         THEN "dc_openai_wait" ELSE "dc_flux_wait"
              /\ UNCHANGED resp
       ELSE /\ Send(Response(400, Undef, Undef, Undef, "none", {}))
            /\ pc' = "done" /\ UNCHANGED calls
  /\ UNCHANGED <<disk, now, served, handler, env, req, loc, logged>>

DcVectorReturn ==
  /\ handler = "dc_api" /\ pc = "dc_vector_wait"
  /\ \E o \in RunOutcomes :
       /\ Answer(o)
       /\ IF generateVector(o) = Thrown
            THEN /\ Send(Response(500, Undef, Undef, Undef, "none", {"recraft"}))
                 /\ logged' = logged \cup {"recraft"}
            ELSE /\ Send(Response(200, generateVector(o), Null, Undef, "none", {}))
                 /\ UNCHANGED logged
  /\ pc' = "done"
  /\ UNCHANGED <<disk, now, served, handler, env, req, loc>>

DcOpenAIReturn ==
  /\ handler = "dc_api" /\ pc = "dc_openai_wait"
  /\ \E o \in HttpOutcomes :
       /\ Answer(o)
       /\ IF generateRealisticOpenAI(o) = Thrown
            THEN /\ Send(Response(500, Undef, Undef, Undef, "none", {"openai"}))
                 /\ logged' = logged \cup {"openai"}
            ELSE /\ Send(Response(200, Null, generateRealisticOpenAI(o), Undef, "none", {}))
                 /\ UNCHANGED logged
  /\ pc' = "done"
  /\ UNCHANGED <<disk, now, served, handler, env, req, loc>>

DcFluxReturn ==
  /\ handler = "dc_api" /\ pc = "dc_flux_wait"
  /\ \E o \in RunOutcomes :
       /\ Answer(o)
       /\ IF generateRealisticFlux(o) = Thrown
            THEN /\ Send(Response(500, Undef, Undef, Undef, "none", {"flux"}))
                 /\ logged' = logged \cup {"flux"}
            ELSE /\ Send(Response(200, Null, generateRealisticFlux(o), Undef, "none", {}))
                 /\ UNCHANGED logged
  /\ pc' = "done"
  /\ UNCHANGED <<disk, now, served, handler, env, req, loc>>

DcNext == DcReceive \/ DcVectorReturn \/ DcOpenAIReturn \/ DcFluxReturn

----------------------------------------------------------------------------
(* src/unnamed/part_004, "NovaAI Backend (Render-ready)": POST             *)
(* /api/generate with normalizeAny over {owner_image, customer_image}.     *)

\* deepFindFirstImage(v)
deepFindFirstImage(v) ==
  CASE v.k \in {"url", "dataurl", "databad"} -> v
    [] v.k = "arr1"                          -> Val("url", v.src)
    [] OTHER                                 -> Null

\* normalizeAny(data) of part_004, for data = {owner_image, customer_image}
\* (a field the generator did not set is undefined): each field from the
\* result, then whichever is missing is filled from the other.
P4normalizeAny(data) ==
  LET anyImage == Or(deepFindFirstImage(data.owner_image),
                     deepFindFirstImage(data.customer_image))
      owner0 == Or(data.owner_image, Null)
      cust0  == Or(data.customer_image, anyImage)
      owner1 == IF ~Truthy(owner0) /\ Truthy(cust0) THEN cust0 ELSE owner0
      cust1  == IF ~Truthy(cust0) /\ Truthy(owner1) THEN owner1 ELSE cust0
  IN [owner_image |-> owner1, customer_image |-> cust1]

\* generateVector of part_004 after replicate.run answered o (not "throw").
P4generateVector(o) ==
  [owner_image |-> FirstIfArray(RunValue("recraft", o)), customer_image |-> Undef]

\* generateRealistic of part_004 after the OpenAI fetch answered o.
P4generateRealistic(o) ==
  IF o = "ok_url" THEN Val("url", "openai") ELSE Thrown

\* The status of the catch block of /api/generate in part_004.
P4CatchStatus == 400

\* The credential the requested target needs is configured.
P4Configured ==
  \/ req.mode = "owner" /\ env.replicateToken
  \/ req.mode = "customer" /\ env.openaiKey

\* Normalise result and answer.
P4Answer(result) ==
  LET out == P4normalizeAny(result) IN
  IF ~Truthy(out.owner_image) /\ ~Truthy(out.customer_image)
    THEN Send(Response(500, Undef, Undef, Undef, "none", {}))
    ELSE Send(Response(200, out.owner_image, out.customer_image, Undef, "none", {}))

P4Receive ==
  /\ handler = "p004" /\ pc = "start"
  /\ IF ~req.prompt \/ req.mode = "missing"
       THEN /\ Send(Response(400, Undef, Undef, Undef, "none", {}))
            /\ pc' = "done" /\ UNCHANGED calls
       ELSE IF ~P4Configured
         THEN /\ Send(Response(P4CatchStatus, Undef, Undef, Undef, "none", {}))
              /\ pc' = "done" /\ UNCHANGED calls
         ELSE /\ IF req.mode = "owner"
                   THEN Issue("recraft", "vector") /\ pc' = "p4_vector_wait"
                   ELSE Issue("openai", "raster") /\ pc' = "p4_openai_wait"
              /\ UNCHANGED resp
  /\ UNCHANGED <<disk, now, served, handler, env, req, loc, logged>>

P4VectorReturn ==
  /\ handler = "p004" /\ pc = "p4_vector_wait"
  /\ \E o \in RunOutcomes :
       /\ Answer(o)
       /\ IF o = "throw"
            THEN /\ Send(Response(P4CatchStatus, Undef, Undef, Undef, "none", {"recraft"}))
                 /\ logged' = logged \cup {"recraft"}
            ELSE P4Answer(P4generateVector(o)) /\ UNCHANGED logged
  /\ pc' = "done"
  /\ UNCHANGED <<disk, now, served, handler, env, req, loc>>

P4OpenAIReturn ==
  /\ handler = "p004" /\ pc = "p4_openai_wait"
  /\ \E o \in HttpOutcomes :
       /\ Answer(o)
       /\ IF P4generateRealistic(o) = Thrown
            THEN /\ Send(Response(P4CatchStatus, Undef, Undef, Undef, "none", {"openai"}))
                 /\ logged' = logged \cup {"openai"}
            ELSE /\ P4Answer([owner_image |-> Undef, customer_image |-> P4generateRealistic(o)])
                 /\ UNCHANGED logged
  /\ pc' = "done"
  /\ UNCHANGED <<disk, now, served, handler, env, req, loc>>

P4Next == P4Receive \/ P4VectorReturn \/ P4OpenAIReturn

----------------------------------------------------------------------------
(* src/server.js: POST /api/generate, OpenAI only, no try/catch.           *)

\* r.status of a non-2xx answer of OpenAI.
UpstreamStatuses == {401, 429, 500}

\* img ? (img.b64_json ? {b64_json} : {url}) : null, for the answer o.
SrvCustomer(o) ==
  CASE o = "ok_b64" -> Val("b64", "openai")
    [] o = "ok_url" -> Val("url", "openai")
    [] OTHER        -> Null

SrvReceive ==
  /\ handler = "server" /\ pc = "start"
  /\ IF ~req.prompt
       THEN /\ Send(Response(400, Undef, Undef, Undef, "none", {}))
            /\ pc' = "done" /\ UNCHANGED calls
       ELSE IF ~req.text
         THEN Escaped /\ UNCHANGED calls      \* (prompt || '').trim is not a function
       ELSE IF req.mode = "owner"
         THEN /\ Send(Response(501, Undef, Undef, Undef, "none", {}))
              /\ pc' = "done" /\ UNCHANGED calls
       ELSE IF req.mode \in {"customer", "both"}
         THEN IF ~env.openaiKey
                THEN /\ Send(Response(500, Undef, Undef, Undef, "none", {}))
                     /\ pc' = "done" /\ UNCHANGED calls
                ELSE /\ Issue("openai", "raster")
                     /\ pc' = "srv_openai_wait" /\ UNCHANGED resp
       ELSE /\ Send(Response(400, Undef, Undef, Undef, "none", {}))
            /\ pc' = "done" /\ UNCHANGED calls
  /\ UNCHANGED <<disk, now, served, handler, env, req, loc, logged>>

\* The fetch rejecting is not caught by anything: the handler's promise
\* rejects.
SrvOpenAIReturn ==
  /\ handler = "server" /\ pc = "srv_openai_wait"
  /\ \E o \in HttpOutcomes :
       /\ Answer(o)
       /\ CASE o = "neterr" -> Escaped
            [] o = "nonok"  ->
                 /\ \E st \in UpstreamStatuses :
                      Send(Response(st, Undef, Undef, Undef, "none", {"openai"}))
                 /\ pc' = "done"
            [] OTHER ->
                 /\ Send(Response(200, Undef, SrvCustomer(o), Undef, "openai", {}))
                 /\ pc' = "done"
  /\ UNCHANGED <<disk, now, served, handler, env, req, loc, logged>>

SrvNext == SrvReceive \/ SrvOpenAIReturn

----------------------------------------------------------------------------
(* POST /generate with stability-ai/sdxl: src/unnamed/part_000,            *)
(* src/unnamed/part_006 and the first server of src/index.js.              *)

SdxlHandlers == {"p000", "p006", "sdxl"}

\* The variant answers 400 to a request without prompt.
SdxlValidates(h) == h \in {"p006", "sdxl"}

\* The variant tests !output || !output[0] before answering.
SdxlChecksOutput(h) == h = "sdxl"

\* The answer once replicate.run resolved to out.  Reading [0] of null
\* throws inside the try block.
SdxlAnswer(h, out) ==
  IF ~Truthy(out)
    THEN Response(500, Undef, Undef, Undef, "none", {})
  ELSE IF SdxlChecksOutput(h) /\ ~Truthy(Elem0(out))
    THEN Response(500, Undef, Undef, Undef, "none", {})
  ELSE Response(200, Undef, Undef, Elem0(out), "sdxl", {})

SdxlReceive ==
  /\ handler \in SdxlHandlers /\ pc = "start"
  /\ IF SdxlValidates(handler) /\ ~req.prompt
       THEN /\ Send(Response(400, Undef, Undef, Undef, "none", {}))
            /\ pc' = "done" /\ UNCHANGED calls
       ELSE IF handler \in TrimsPrompt /\ ~req.text
         THEN Escaped /\ UNCHANGED calls      \* prompt.trim is not a function
       ELSE /\ Issue("sdxl", "raster")
            /\ pc' = "sdxl_wait" /\ UNCHANGED resp
  /\ UNCHANGED <<disk, now, served, handler, env, req, loc, logged>>

SdxlReturn ==
  /\ handler \in SdxlHandlers /\ pc = "sdxl_wait"
  /\ \E o \in RunOutcomes :
       /\ Answer(o)
       /\ IF o = "throw"
            THEN /\ Send(Response(500, Undef, Undef, Undef, "none",
                                  IF handler = "p000" THEN {} ELSE {"sdxl"}))
                 /\ logged' = logged \cup {"sdxl"}
            ELSE /\ Send(SdxlAnswer(handler, RunValue("sdxl", o)))
                 /\ logged' = IF Truthy(RunValue("sdxl", o)) \/ SdxlChecksOutput(handler)
                                THEN logged ELSE logged \cup {"sdxl"}
  /\ pc' = "done"
  /\ UNCHANGED <<disk, now, served, handler, env, req, loc>>

SdxlNext == SdxlReceive \/ SdxlReturn

----------------------------------------------------------------------------
(* src/unnamed/part_007: POST /api/generate, SeedEdit, then Flux Schnell,  *)
(* then OpenAI.                                                            *)

\* Array.isArray(output) ? output[0] : output
P7Image(p, o) == FirstIfArray(RunValue(p, o))

\* data.data?.[0]?.b64_json ? `data:image/png;base64,...` : null
P7OpenAIImage(o) == IF o = "ok_b64" THEN Val("dataurl", "openai") ELSE Null

\* The answer after the OpenAI body was parsed (resp.ok is not looked at).
P7OpenAIAnswer(o) == Response(200, Undef, Undef, P7OpenAIImage(o), "openai", {})

\* Variant in which the handler goes on to Flux after it answered.
P7AfterSeedEditGoesOn == "p7_flux"

\* return res.json({ used: "replicate/seededit-3.0", ... }): the handler ends.
P7AfterSeedEdit == "done"

P7Receive ==
  /\ handler = "p007" /\ pc = "start"
  /\ Issue("seededit", "raster")
  /\ pc' = "p7_seededit_wait"
  /\ UNCHANGED <<disk, now, served, handler, env, req, loc, logged, resp>>

P7SeedEditReturn ==
  /\ handler = "p007" /\ pc = "p7_seededit_wait"
  /\ \E o \in RunOutcomes :
       /\ Answer(o)
       /\ IF o = "throw"
            THEN /\ logged' = logged \cup {"seededit"}
                 /\ pc' = "p7_flux" /\ UNCHANGED resp
            ELSE /\ Send(Response(200, Undef, Undef, P7Image("seededit", o), "seededit", {}))
                 /\ pc' = P7AfterSeedEdit /\ UNCHANGED logged
  /\ UNCHANGED <<disk, now, served, handler, env, req, loc>>

P7Flux ==
  /\ handler = "p007" /\ pc = "p7_flux"
  /\ Issue("flux", "raster")
  /\ pc' = "p7_flux_wait"
  /\ UNCHANGED <<disk, now, served, handler, env, req, loc, logged, resp>>

P7FluxReturn ==
  /\ handler = "p007" /\ pc = "p7_flux_wait"
  /\ \E o \in RunOutcomes :
       /\ Answer(o)
       /\ IF o = "throw"
            THEN /\ logged' = logged \cup {"flux"}
                 /\ pc' = "p7_openai" /\ UNCHANGED resp
            ELSE /\ Send(Response(200, Undef, Undef, P7Image("flux", o), "flux", {}))
                 /\ pc' = "done" /\ UNCHANGED logged
  /\ UNCHANGED <<disk, now, served, handler, env, req, loc>>

P7OpenAI ==
  /\ handler = "p007" /\ pc = "p7_openai"
  /\ IF env.openaiKey
       THEN Issue("openai", "raster") /\ pc' = "p7_openai_wait" /\ UNCHANGED resp
       ELSE /\ Send(Response(500, Undef, Undef, Undef, "none", {}))
            /\ pc' = "done" /\ UNCHANGED calls
  /\ UNCHANGED <<disk, now, served, handler, env, req, loc, logged>>

P7OpenAIReturn ==
  /\ handler = "p007" /\ pc = "p7_openai_wait"
  /\ \E o \in HttpOutcomes :
       /\ Answer(o)
       /\ IF o = "neterr"
            THEN Send(Response(500, Undef, Undef, Undef, "none", {"openai"}))
            ELSE Send(P7OpenAIAnswer(o))
  /\ pc' = "done"
  /\ UNCHANGED <<disk, now, served, handler, env, req, loc, logged>>

P7Next ==
  \/ P7Receive \/ P7SeedEditReturn \/ P7Flux \/ P7FluxReturn
  \/ P7OpenAI \/ P7OpenAIReturn

----------------------------------------------------------------------------
(* src/unnamed/part_002: POST /api/generate over the Replicate REST API    *)
(* (create a prediction, then poll it), owner first, then customer.        *)

\* pollReplicate: for (let i = 0; i < 60; i++)
PollLimit == 60

\* The POST that creates a prediction.
CreateOutcomes == {"neterr", "nonok", "ok"}
\* j.status of a polled prediction.
PollStatuses == {"starting", "processing", "succeeded", "failed", "canceled"}
\* result.output of a prediction that succeeded.
OutputShapes == {"arr1", "arr0", "str", "null"}

\* The provider of the prediction being created or polled.
P2Provider == IF pc \in {"p2_owner_create", "p2_owner_poll"} THEN "recraft" ELSE "flux"

\* throw inside the try block: catch answers 500 with the error's message.
P2Fail(p, d) ==
  /\ Send(Detailed(Response(500, Undef, Undef, Undef, "none", IF p = "none" THEN {} ELSE {p}), d))
  /\ logged' = IF p = "none" THEN logged ELSE logged \cup {p}
  /\ pc' = "done"

P2Receive ==
  /\ handler = "p002" /\ pc = "start"
  /\ IF ~env.replicateToken
       THEN P2Fail("none", "exception") /\ UNCHANGED calls
       ELSE /\ Issue("recraft", "vector")
            /\ pc' = "p2_owner_create"
            /\ UNCHANGED <<resp, logged>>
  /\ UNCHANGED <<disk, now, served, handler, env, req, loc>>

P2CreateReturn ==
  /\ handler = "p002" /\ pc \in {"p2_owner_create", "p2_flux_create"}
  /\ \E o \in CreateOutcomes :
       IF o = "ok"
         THEN /\ loc' = [loc EXCEPT !.polls = 0, !.poll = PollInit]
              /\ pc' = IF pc = "p2_owner_create" THEN "p2_owner_poll" ELSE "p2_customer_poll"
              /\ UNCHANGED <<calls, resp, logged>>
         ELSE /\ Answer(o)
              /\ P2Fail(P2Provider, IF o = "nonok" THEN "provider" ELSE "exception")
              /\ UNCHANGED loc
  /\ UNCHANGED <<disk, now, served, handler, env, req>>

\* One iteration of the loop of pollReplicate, and what follows its return.
P2Poll ==
  /\ handler = "p002" /\ pc \in {"p2_owner_poll", "p2_customer_poll"}
  /\ loc.polls < PollLimit
  /\ \/ /\ Answer("neterr")
        /\ P2Fail(P2Provider, "exception")
        /\ loc' = [loc EXCEPT !.polls = 0, !.poll = Fetched(loc.poll, "neterr", 0)]
     \/ \E st \in PollStatuses :
          CASE st \in {"starting", "processing"} ->
                 /\ loc' = [loc EXCEPT
                      !.polls = loc.polls + 1,
                      !.poll = Slept(Fetched(loc.poll, "processing", 0),
                                     loc.poll.fetches + 1 >= PollLimit)]
                 /\ UNCHANGED <<pc, calls, resp, logged>>
            [] st \in {"failed", "canceled"} ->
                 /\ Answer(st)
                 /\ P2Fail(P2Provider, "status")
                 /\ loc' = [loc EXCEPT !.polls = 0, !.poll = Fetched(loc.poll, st, 0)]
            [] OTHER ->
                 \E o \in OutputShapes :
                   /\ Answer(o)
                   /\ IF pc = "p2_owner_poll"
                        THEN /\ loc' = [loc EXCEPT !.polls = 0,
                                          !.poll = Fetched(loc.poll, st, 0),
                                          !.vector = FirstIfArray(RunValue("recraft", o))]
                             /\ pc' = "p2_customer"
                        ELSE /\ loc' = [loc EXCEPT !.polls = 0,
                                          !.poll = Fetched(loc.poll, st, 0),
                                          !.raster = FirstIfArray(RunValue("flux", o))]
                             /\ pc' = "p2_respond"
                   /\ UNCHANGED <<resp, logged>>
  /\ UNCHANGED <<disk, now, served, handler, env, req>>

\* The loop ran out: throw new Error("Replicate: timeout").
P2PollTimeout ==
  /\ handler = "p002" /\ pc \in {"p2_owner_poll", "p2_customer_poll"}
  /\ loc.polls >= PollLimit
  /\ Answer("timeout")
  /\ P2Fail(P2Provider, "timeout")
  /\ loc' = [loc EXCEPT !.polls = 0]
  /\ UNCHANGED <<disk, now, served, handler, env, req>>

P2Customer ==
  /\ handler = "p002" /\ pc = "p2_customer"
  /\ IF env.openaiKey
       THEN Issue("openai", "raster") /\ pc' = "p2_openai_wait"
       ELSE UNCHANGED calls /\ pc' = "p2_flux"
  /\ UNCHANGED <<disk, now, served, handler, env, req, loc, logged, resp>>

\* if (r.ok && j?.data?.[0]?.url) return j.data[0].url; anything else falls
\* through to Flux.
P2OpenAIReturn ==
  /\ handler = "p002" /\ pc = "p2_openai_wait"
  /\ \E o \in HttpOutcomes :
       /\ Answer(o)
       /\ IF o = "ok_url"
            THEN /\ loc' = [loc EXCEPT !.raster = Val("url", "openai")]
                 /\ pc' = "p2_respond"
                 /\ UNCHANGED logged
            ELSE /\ logged' = logged \cup {"openai"}
                 /\ pc' = "p2_flux"
                 /\ UNCHANGED loc
  /\ UNCHANGED <<disk, now, served, handler, env, req, resp>>

P2Flux ==
  /\ handler = "p002" /\ pc = "p2_flux"
  /\ IF ~env.replicateToken
       THEN P2Fail("none", "exception") /\ UNCHANGED <<calls, loc>>
       ELSE /\ Issue("flux", "raster")
            /\ pc' = "p2_flux_create"
            /\ loc' = [loc EXCEPT !.poll = PollInit]
            /\ UNCHANGED <<resp, logged>>
  /\ UNCHANGED <<disk, now, served, handler, env, req>>

P2Respond ==
  /\ handler = "p002" /\ pc = "p2_respond"
  /\ Send(Response(200, loc.vector, loc.raster, Undef, "none", {}))
  /\ pc' = "done"
  /\ UNCHANGED <<disk, now, served, handler, env, req, loc, calls, logged>>

P2Next ==
  \/ P2Receive \/ P2CreateReturn \/ P2Poll \/ P2PollTimeout \/ P2Customer
  \/ P2OpenAIReturn \/ P2Flux \/ P2Respond

----------------------------------------------------------------------------
(* src/unnamed/part_003: POST /api/generate, customer (OpenAI edits, then  *)
(* Flux) and owner (img2svg, then Recraft).                                *)

\* ownerUrl after the vectorizer resolved to out: the first element of an
\* array, SVG text as a data URL, other text trimmed.
P3VectorizerUrl(out, prev) ==
  IF IsArray(out) /\ ArrLen(out) > 0 THEN Elem0(out)
  ELSE IF out.k = "svg" THEN Val("dataurl", out.src)
  ELSE IF out.k = "blank" THEN Val("empty", out.src)
  ELSE IF IsString(out) THEN out
  ELSE prev

\* Variants of the two guards that run the fallback whatever the primary gave.
P3NeedsFluxAlways(customerUrl) == TRUE
P3NeedsRecraftAlways(ownerUrl) == TRUE

\* if (!customerUrl)
P3NeedsFlux(customerUrl) == ~Truthy(customerUrl)
\* if (!ownerUrl)
P3NeedsRecraft(ownerUrl) == ~Truthy(ownerUrl)
\* if (inputForVector)
P3RunsVectorizer(inputForVector) == Truthy(inputForVector)

P3Receive ==
  /\ handler = "p003" /\ pc = "start"
  /\ IF ~env.replicateToken
       THEN /\ Send(Response(500, Undef, Undef, Undef, "none", {}))
            /\ pc' = "done"
       ELSE pc' = "p3_customer" /\ UNCHANGED resp
  /\ UNCHANGED <<disk, now, served, handler, env, req, loc, calls, logged>>

\* if (OPENAI_API_KEY && ref): refToBlob(ref) first.
P3Customer ==
  /\ handler = "p003" /\ pc = "p3_customer"
  /\ IF env.openaiKey /\ req.ref # "none"
       THEN IF req.ref = "http"
              THEN Issue("download", "aux") /\ pc' = "p3_download"
              ELSE UNCHANGED calls /\ pc' = "p3_openai"
       ELSE UNCHANGED calls /\ pc' = "p3_flux_check"
  /\ UNCHANGED <<disk, now, served, handler, env, req, loc, logged, resp>>

P3Download ==
  /\ handler = "p003" /\ pc = "p3_download"
  /\ \E o \in DlOutcomes :
       /\ Answer(o)
       /\ IF o = "ok"
            THEN pc' = "p3_openai" /\ UNCHANGED logged
            ELSE pc' = "p3_flux_check" /\ logged' = logged \cup {"openai"}
  /\ UNCHANGED <<disk, now, served, handler, env, req, loc, resp>>

P3OpenAI ==
  /\ handler = "p003" /\ pc = "p3_openai"
  /\ Issue("openai", "raster")
  /\ pc' = "p3_openai_wait"
  /\ UNCHANGED <<disk, now, served, handler, env, req, loc, logged, resp>>

P3OpenAIReturn ==
  /\ handler = "p003" /\ pc = "p3_openai_wait"
  /\ \E o \in HttpOutcomes :
       /\ Answer(o)
       /\ IF o \in {"neterr", "nonok"}
            THEN logged' = logged \cup {"openai"} /\ UNCHANGED loc
            ELSE /\ loc' = [loc EXCEPT
                              !.raster = IF o = "ok_url" THEN Val("url", "openai") ELSE Null,
                              !.used = "openai"]
                 /\ UNCHANGED logged
  /\ pc' = "p3_flux_check"
  /\ UNCHANGED <<disk, now, served, handler, env, req, resp>>

P3FluxCheck ==
  /\ handler = "p003" /\ pc = "p3_flux_check"
  /\ IF P3NeedsFlux(loc.raster)
       THEN Issue("flux", "raster") /\ pc' = "p3_flux_wait"
       ELSE UNCHANGED calls /\ pc' = "p3_owner"
  /\ UNCHANGED <<disk, now, served, handler, env, req, loc, logged, resp>>

P3FluxReturn ==
  /\ handler = "p003" /\ pc = "p3_flux_wait"
  /\ \E o \in RunOutcomes :
       /\ Answer(o)
       /\ IF o = "throw"
            THEN logged' = logged \cup {"flux"} /\ UNCHANGED loc
            ELSE /\ loc' = [loc EXCEPT
                              !.raster = FirstOrString(RunValue("flux", o), loc.raster),
                              !.used = IF loc.used = "none" THEN "flux" ELSE loc.used]
                 /\ UNCHANGED logged
  /\ pc' = "p3_owner"
  /\ UNCHANGED <<disk, now, served, handler, env, req, resp>>

\* let inputForVector = customerUrl || null; if (!inputForVector && ref) ...
P3Owner ==
  /\ handler = "p003" /\ pc = "p3_owner"
  /\ IF ~Truthy(loc.raster) /\ req.ref # "none"
       THEN IF req.ref = "data"
              THEN /\ Issue("flux", "vector")
                   /\ loc' = [loc EXCEPT !.vecInput = Null]
                   /\ pc' = "p3_vecinput_wait"
              ELSE /\ loc' = [loc EXCEPT !.vecInput = Val("url", "ref")]
                   /\ pc' = "p3_vectorize"
                   /\ UNCHANGED calls
       ELSE /\ loc' = [loc EXCEPT !.vecInput = OrNull(loc.raster)]
            /\ pc' = "p3_vectorize"
            /\ UNCHANGED calls
  /\ UNCHANGED <<disk, now, served, handler, env, req, logged, resp>>

P3VecInputReturn ==
  /\ handler = "p003" /\ pc = "p3_vecinput_wait"
  /\ \E o \in RunOutcomes :
       /\ Answer(o)
       /\ IF o = "throw"
            THEN logged' = logged \cup {"flux"} /\ UNCHANGED loc
            ELSE /\ loc' = [loc EXCEPT
                              !.vecInput = FirstOrString(RunValue("flux", o), loc.vecInput)]
                 /\ UNCHANGED logged
  /\ pc' = "p3_vectorize"
  /\ UNCHANGED <<disk, now, served, handler, env, req, resp>>

P3Vectorize ==
  /\ handler = "p003" /\ pc = "p3_vectorize"
  /\ IF P3RunsVectorizer(loc.vecInput)
       THEN Issue("img2svg", "vector") /\ pc' = "p3_vectorizer_wait"
       ELSE UNCHANGED calls /\ pc' = "p3_recraft_check"
  /\ UNCHANGED <<disk, now, served, handler, env, req, loc, logged, resp>>

P3VectorizerReturn ==
  /\ handler = "p003" /\ pc = "p3_vectorizer_wait"
  /\ \E o \in VecOutcomes :
       /\ Answer(o)
       /\ IF o = "throw"
            THEN logged' = logged \cup {"img2svg"} /\ UNCHANGED loc
            ELSE /\ loc' = [loc EXCEPT
                              !.vector = P3VectorizerUrl(RunValue("img2svg", o), loc.vector)]
                 /\ UNCHANGED logged
  /\ pc' = "p3_recraft_check"
  /\ UNCHANGED <<disk, now, served, handler, env, req, resp>>

P3RecraftCheck ==
  /\ handler = "p003" /\ pc = "p3_recraft_check"
  /\ IF P3NeedsRecraft(loc.vector)
       THEN Issue("recraft", "vector") /\ pc' = "p3_recraft_wait"
       ELSE UNCHANGED calls /\ pc' = "p3_respond"
  /\ UNCHANGED <<disk, now, served, handler, env, req, loc, logged, resp>>

P3RecraftReturn ==
  /\ handler = "p003" /\ pc = "p3_recraft_wait"
  /\ \E o \in RunOutcomes :
       /\ Answer(o)
       /\ IF o = "throw"
            THEN logged' = logged \cup {"recraft"} /\ UNCHANGED loc
            ELSE /\ loc' = [loc EXCEPT
                              !.vector = FirstOrString(RunValue("recraft", o), loc.vector)]
                 /\ UNCHANGED logged
  /\ pc' = "p3_respond"
  /\ UNCHANGED <<disk, now, served, handler, env, req, resp>>

P3Respond ==
  /\ handler = "p003" /\ pc = "p3_respond"
  /\ IF ~Truthy(loc.vector) /\ ~Truthy(loc.raster)
       THEN Send(Response(500, Undef, Undef, Undef, "none", {}))
       ELSE Send(Response(200, OrNull(loc.vector), OrNull(loc.raster), Undef, loc.used, {}))
  /\ pc' = "done"
  /\ UNCHANGED <<disk, now, served, handler, env, req, loc, calls, logged>>

P3Next ==
  \/ P3Receive \/ P3Customer \/ P3Download \/ P3OpenAI \/ P3OpenAIReturn
  \/ P3FluxCheck \/ P3FluxReturn \/ P3Owner \/ P3VecInputReturn \/ P3Vectorize
  \/ P3VectorizerReturn \/ P3RecraftCheck \/ P3RecraftReturn \/ P3Respond

----------------------------------------------------------------------------
(* src/server_replicate.js, first and second server ("replicate proxy"):   *)
(* POST /api/generate over axios with createPrediction and                 *)
(* waitForPrediction.  The two differ only in the URL of the create call  *)
(* and are one handler here.                                               *)

SrHandlers == {"sr_v1"}

\* const MAX_POLL_MS = Number(process.env.MAX_POLL_MS || 120000)
MAX_POLL_MS == 120000
\* const POLL_INTERVAL = Number(process.env.POLL_INTERVAL || 2500)
POLL_INTERVAL == 2500
\* MAX_POLL_MS in units of the poll interval.
MaxPollIntervals == MAX_POLL_MS \div POLL_INTERVAL
\* Time a status fetch takes, in poll intervals (its axios timeout is 15 s).
FetchIntervals == {0, 1}

\* catch: res.status(err?.response?.status || 500).json({..., error: detail})
SrFail(st, d) ==
  /\ Send(Detailed(Response(st, Undef, Undef, Undef, "none", {}), d))
  /\ pc' = "done"

\* An axios call failed with outcome o: a non-2xx answer carries the
\* provider's status and body, anything else has no response.
SrCatch(o) ==
  IF o = "nonok"
    THEN \E st \in UpstreamStatuses : SrFail(st, "provider")
    ELSE SrFail(500, "exception")

\* Resolve the reference image; nothing is validated.
SrReceive ==
  /\ handler \in SrHandlers /\ pc = "start"
  /\ IF req.ref = "http"
       THEN Issue("download", "aux") /\ pc' = "sr_ref_wait"
       ELSE Issue("replicate", "raster") /\ pc' = "sr_create_wait"
  /\ UNCHANGED <<disk, now, served, handler, env, req, loc, logged, resp>>

SrRefReturn ==
  /\ handler \in SrHandlers /\ pc = "sr_ref_wait"
  /\ \E o \in DlOutcomes :
       /\ Answer(o)
       /\ IF o = "ok" THEN pc' = "sr_create" /\ UNCHANGED resp ELSE SrCatch(o)
  /\ UNCHANGED <<disk, now, served, handler, env, req, loc, logged>>

SrCreate ==
  /\ handler \in SrHandlers /\ pc = "sr_create"
  /\ Issue("replicate", "raster")
  /\ pc' = "sr_create_wait"
  /\ UNCHANGED <<disk, now, served, handler, env, req, loc, logged, resp>>

SrCreateReturn ==
  /\ handler \in SrHandlers /\ pc = "sr_create_wait"
  /\ \E o \in CreateOutcomes :
       IF o = "ok"
         THEN /\ loc' = [loc EXCEPT !.poll = PollInit]
              /\ pc' = "sr_poll"
              /\ UNCHANGED <<calls, resp>>
         ELSE Answer(o) /\ SrCatch(o) /\ UNCHANGED loc
  /\ UNCHANGED <<disk, now, served, handler, env, req, logged>>

\* The answer of the handler to a prediction that ended with status st and,
\* if it succeeded, output shape o.
SrAfterWait(st, o) ==
  IF st # "succeeded"
    THEN /\ Send(Detailed(Response(502, Undef, Undef, Undef, "none", {"replicate"}), "provider"))
         /\ pc' = "done"
  ELSE IF o \in {"arr0", "null"}
    THEN /\ Send(Response(502, Undef, Undef, Undef, "none", {}))
         /\ pc' = "done"
  ELSE pc' = "sr_image" /\ UNCHANGED resp

\* One iteration of waitForPrediction: while (Date.now() - t0 < MAX_POLL_MS)
SrPoll ==
  /\ handler \in SrHandlers /\ pc = "sr_poll"
  /\ loc.poll.elapsed < MaxPollIntervals
  /\ \/ \E o \in {"neterr", "nonok"} :
          /\ Answer(o)
          /\ SrCatch(o)
          /\ loc' = [loc EXCEPT !.poll = Fetched(loc.poll, o, 0)]
     \/ \E st \in PollStatuses, d \in FetchIntervals :
          IF st \notin TerminalStatuses
            THEN /\ loc' = [loc EXCEPT !.poll =
                      Slept(Fetched(loc.poll, "processing", d),
                            loc.poll.elapsed + d >= MaxPollIntervals)]
                 /\ UNCHANGED <<pc, calls, resp>>
            ELSE \E o \in IF st = "succeeded" THEN OutputShapes ELSE {st} :
                   /\ Answer(o)
                   /\ loc' = [loc EXCEPT
                        !.poll = Fetched(loc.poll, st, d),
                        !.raster = IF st = "succeeded"
                                     THEN FirstIfArray(RunValue("replicate", o))
                                     ELSE loc.raster]
                   /\ SrAfterWait(st, o)
  /\ UNCHANGED <<disk, now, served, handler, env, req, logged>>

\* throw new Error("Timeout waiting for Replicate prediction")
SrPollTimeout ==
  /\ handler \in SrHandlers /\ pc = "sr_poll"
  /\ loc.poll.elapsed >= MaxPollIntervals
  /\ Answer("timeout")
  /\ SrFail(500, "timeout")
  /\ UNCHANGED <<disk, now, served, handler, env, req, loc, logged>>

\* fetchAsBuffer(imgUrl)
SrImage ==
  /\ handler \in SrHandlers /\ pc = "sr_image"
  /\ Issue("download", "aux")
  /\ pc' = "sr_image_wait"
  /\ UNCHANGED <<disk, now, served, handler, env, req, loc, logged, resp>>

SrImageReturn ==
  /\ handler \in SrHandlers /\ pc = "sr_image_wait"
  /\ \E o \in DlOutcomes :
       /\ Answer(o)
       /\ IF o = "ok"
            THEN /\ Send(Response(200, Undef, Undef, Val("dataurl", "replicate"),
                                  "replicate", {}))
                 /\ pc' = "done"
            ELSE SrCatch(o)
  /\ UNCHANGED <<disk, now, served, handler, env, req, loc, logged>>

\* The axios timeout of a pending call (20 s create, 15 s status, 30 s
\* download) expires: the call rejects without a response.
SrClientTimeout ==
  /\ handler \in SrHandlers
  /\ pc \in {"sr_ref_wait", "sr_create_wait", "sr_poll", "sr_image_wait"}
  /\ Answer("client_timeout")
  /\ SrFail(500, "exception")
  /\ UNCHANGED <<disk, now, served, handler, env, req, loc, logged>>

SrNext ==
  \/ SrReceive \/ SrRefReturn \/ SrCreate \/ SrCreateReturn \/ SrPoll
  \/ SrPollTimeout \/ SrImage \/ SrImageReturn \/ SrClientTimeout

----------------------------------------------------------------------------
(* src/server_replicate.js, third server: POST /api/generate over          *)
(* node-fetch with an inline poll loop.                                    *)

\* const MAX_POLLS = 90
MAX_POLLS == 90

\* Variant of the break test that only knows failed.
V3BreakOnFailedOnly == {"failed"}

\* The statuses at which the inline loop breaks.
V3BreakStatuses == {"succeeded", "failed"}

\* The status a fetch can return when the previous one returned last: a
\* prediction that reached a terminal status keeps it.
V3NextStatuses(last) ==
  IF last \in TerminalStatuses THEN {last} ELSE PollStatuses

\* catch: res.status(500).json({ ok: false, msg: err.message })
V3Fail(d) ==
  /\ Send(Detailed(Response(500, Undef, Undef, Undef, "none", {}), d))
  /\ pc' = "done"

V3Receive ==
  /\ handler = "sr_v3" /\ pc = "start"
  /\ IF req.ref = "none"
       THEN /\ Send(Response(400, Undef, Undef, Undef, "none", {}))
            /\ pc' = "done" /\ UNCHANGED calls
       ELSE /\ Issue("versions", "aux")
            /\ pc' = "v3_version_wait" /\ UNCHANGED resp
  /\ UNCHANGED <<disk, now, served, handler, env, req, loc, logged>>

\* getLatestVersion: r.ok is not looked at, the version may be undefined.
V3VersionReturn ==
  /\ handler = "sr_v3" /\ pc = "v3_version_wait"
  /\ \E o \in DlOutcomes :
       /\ Answer(o)
       /\ IF o = "neterr"
            THEN V3Fail("exception")
            ELSE pc' = "v3_create" /\ UNCHANGED resp
  /\ UNCHANGED <<disk, now, served, handler, env, req, loc, logged>>

V3Create ==
  /\ handler = "sr_v3" /\ pc = "v3_create"
  /\ Issue("replicate", "raster")
  /\ pc' = "v3_create_wait"
  /\ UNCHANGED <<disk, now, served, handler, env, req, loc, logged, resp>>

\* createPrediction; on success result = start, whose status is that of the
\* new prediction.
V3CreateReturn ==
  /\ handler = "sr_v3" /\ pc = "v3_create_wait"
  /\ \E o \in CreateOutcomes :
       IF o = "ok"
         THEN /\ loc' = [loc EXCEPT !.polls = 0,
                           !.poll = [PollInit EXCEPT !.last = "processing"]]
              /\ pc' = "v3_poll"
              /\ UNCHANGED <<calls, resp>>
         ELSE /\ Answer(o)
              /\ V3Fail(IF o = "nonok" THEN "provider" ELSE "exception")
              /\ UNCHANGED loc
  /\ UNCHANGED <<disk, now, served, handler, env, req, logged>>

\* One iteration of for (let i = 0; i < MAX_POLLS; i++) that does not break:
\* sleep, then getPrediction.
V3Poll ==
  /\ handler = "sr_v3" /\ pc = "v3_poll"
  /\ loc.polls < MAX_POLLS
  /\ loc.poll.last \notin V3BreakStatuses
  /\ \/ \E o \in {"neterr", "nonok"} :
          /\ Answer(o)
          /\ V3Fail(IF o = "nonok" THEN "provider" ELSE "exception")
          /\ loc' = [loc EXCEPT !.polls = 0,
                       !.poll = Fetched(Slept(loc.poll, FALSE), o, 0)]
     \/ \E st \in V3NextStatuses(loc.poll.last) :
          /\ loc' = [loc EXCEPT !.polls = loc.polls + 1,
                       !.poll = Fetched(Slept(loc.poll, FALSE),
                                        IF st \in TerminalStatuses THEN st ELSE "processing", 0)]
          /\ UNCHANGED <<pc, calls, resp>>
  /\ UNCHANGED <<disk, now, served, handler, env, req, logged>>

\* The loop broke or ran out: if (result.status !== "succeeded") 500 with the
\* prediction object; else the image is the first output, unchecked.
V3AfterLoop ==
  /\ handler = "sr_v3" /\ pc = "v3_poll"
  /\ loc.polls >= MAX_POLLS \/ loc.poll.last \in V3BreakStatuses
  /\ IF loc.poll.last # "succeeded"
       THEN /\ Answer(IF loc.poll.last \in TerminalStatuses THEN loc.poll.last ELSE "timeout")
            /\ Send(Detailed(Response(500, Undef, Undef, Undef, "none", {"replicate"}), "provider"))
            /\ UNCHANGED loc
       ELSE \E o \in OutputShapes :
              /\ Answer(o)
              /\ loc' = [loc EXCEPT !.raster = FirstIfArray(RunValue("replicate", o))]
              /\ Send(Response(200, Undef, Undef, FirstIfArray(RunValue("replicate", o)),
                               "replicate", {}))
  /\ pc' = "done"
  /\ UNCHANGED <<disk, now, served, handler, env, req, logged>>

V3Next ==
  \/ V3Receive \/ V3VersionReturn \/ V3Create \/ V3CreateReturn \/ V3Poll
  \/ V3AfterLoop

----------------------------------------------------------------------------
(* The process.                                                            *)

\* The process takes the next request once the handler of the previous one
\* has finished (or died with an unhandled rejection).
NextRequest ==
  /\ pc \in {"done", "unhandled"}
  /\ served + 1 < MaxRequests
  /\ served' = served + 1
  /\ req' \in RequestsOf(handler)
  /\ pc' = "start"
  /\ loc' = LocInit
  /\ calls' = << >>
  /\ logged' = {}
  /\ resp' = << >>
  /\ UNCHANGED <<handler, env, disk, now>>

Next ==
  \/ V2Next \/ DcNext \/ P4Next \/ SrvNext \/ SdxlNext \/ P7Next \/ P2Next
  \/ P3Next \/ SrNext \/ V3Next \/ NextRequest

Spec == Init /\ [][Next]_vars

----------------------------------------------------------------------------
(* Properties.                                                             *)

Responded == Len(resp) > 0
LastResp  == resp[Len(resp)]
Finished  == pc = "done" /\ Responded

\* Call i went to provider p on the given path.
IsCall(i, p, path) == calls[i].p = p /\ calls[i].path = path

\* Outcomes of the OpenAI call of v2+ from which no image can be extracted:
\* it throws, it is not OK, data is empty, data[0] has no b64_json.
V2PrimaryFailures == {"neterr", "nonok", "ok_empty", "ok_url"}

\* C1: in v2+ with mode both or raster, whenever the primary OpenAI call
\* throws, is not OK, or is OK without an extractable image (empty data, or
\* data[0] without b64_json), the Flux fallback is attempted in the same
\* request before the response is sent.
C1_FallbackAfterPrimaryFailure ==
  (handler = "v2plus" /\ req.mode \in {"both", "raster"} /\ Responded) =>
    \A i \in 1..Len(calls) :
      (IsCall(i, "openai", "raster") /\ calls[i].out \in V2PrimaryFailures) =>
        \E j \in (i+1)..Len(calls) : IsCall(j, "flux", "raster")

\* The OpenAI call of the disk-cache generateRealistic failed: not OK, or no
\* image in the body.
DcOpenAIFailed ==
  \E i \in 1..Len(calls) :
    /\ IsCall(i, "openai", "raster")
    /\ calls[i].out # "pending"
    /\ generateRealisticOpenAI(calls[i].out) = Thrown

\* C2 as stated: in the disk-cache generateRealistic with the OpenAI key
\* configured, when the OpenAI call fails Flux is attempted before any error
\* reaches the handler.
C2_FluxBeforeError ==
  (handler = "dc_api" /\ env.openaiKey /\ DcOpenAIFailed /\ Responded) =>
    Called("flux")

\* C2: in the disk-cache generateRealistic exactly one provider is chosen by
\* configuration: with the OpenAI key configured only OpenAI is called and
\* its failure is answered 500 with no Flux attempt; Flux is called only
\* when the key is not configured.
C2_OneProviderByConfiguration ==
  handler = "dc_api" =>
    /\ env.openaiKey => ~Called("flux")
    /\ ~env.openaiKey => ~Called("openai")
    /\ (DcOpenAIFailed /\ Responded) =>
         /\ LastResp.status = 500
         /\ LastResp.errs = {"openai"}
         /\ Len(calls) = 1

C2_OpenAIFailureAnswered ==
  /\ handler = "dc_api" /\ env.openaiKey /\ Finished
  /\ \E i \in 1..Len(calls) : IsCall(i, "openai", "raster") /\ calls[i].out = "nonok"
  /\ LastResp.status = 500

\* The handlers with an OpenAI-then-Flux raster chain.
RasterChainHandlers == {"v2plus", "p002", "p003"}

\* An OpenAI call was issued before call i.
PrimaryIssuedBefore(i) == \E j \in 1..(i-1) : calls[j].p = "openai"

\* The primary cannot be called for the request: it is switched off or has
\* no key and, in part_003, also when there is no reference image or the
\* reference could not be read.
PrimaryNotCallable(i) ==
  CASE handler = "v2plus" -> env.forceFallback \/ ~env.openaiKey
    [] handler = "p002"   -> ~env.openaiKey
    [] handler = "p003"   ->
         \/ ~env.openaiKey
         \/ req.ref = "none"
         \/ \E j \in 1..(i-1) : calls[j].p = "download" /\ calls[j].out \in {"neterr", "nonok"}
    [] OTHER -> FALSE

\* C3 as stated: on the raster path, under every configuration, no Flux call
\* is issued unless an OpenAI call was issued earlier in the same request.
C3_PrimaryAlwaysFirst ==
  handler \in RasterChainHandlers =>
    \A i \in 1..Len(calls) : IsCall(i, "flux", "raster") => PrimaryIssuedBefore(i)

\* C3: on the raster path a Flux call is issued only after an OpenAI call of
\* the same request, except when the primary cannot be called: FORCE_FALLBACK
\* set or key missing (v2+), key missing (part_002), key missing, no
\* reference image or unreadable reference (part_003).
C3_PrimaryFirstWhenCallable ==
  handler \in RasterChainHandlers =>
    \A i \in 1..Len(calls) :
      IsCall(i, "flux", "raster") => (PrimaryIssuedBefore(i) \/ PrimaryNotCallable(i))

C3_FluxAfterOpenAI ==
  /\ handler = "v2plus" /\ env.openaiKey /\ ~env.forceFallback /\ Finished
  /\ \E i \in 1..Len(calls) :
       /\ IsCall(i, "flux", "raster")
       /\ \E j \in 1..(i-1) : IsCall(j, "openai", "raster") /\ calls[j].out = "nonok"


\* The primary call c of a raster chain returned a usable image.
PrimaryUsable(c) ==
  CASE handler = "v2plus" -> c.p = "openai" /\ c.out = "ok_b64"
    [] handler = "p003"   -> c.p = "openai" /\ c.out = "ok_url"
    [] handler = "p007"   -> c.p \in {"seededit", "flux"} /\ c.out \in {"arr1", "str"}
    [] OTHER -> FALSE

\* C4: within one request a fallback call never starts while an earlier
\* call is still in flight, and once the primary of the raster chain has
\* returned a usable image no further call is made on that path (part_007,
\* part_003 raster, v2+ raster).
C4_SequentialFallback ==
  handler \in {"v2plus", "p003", "p007"} =>
    /\ \A i \in 1..Len(calls) : i < Len(calls) => calls[i].out # "pending"
    /\ \A i \in 1..Len(calls) :
         (calls[i].path = "raster" /\ PrimaryUsable(calls[i])) =>
           \A j \in (i+1)..Len(calls) : calls[j].path # "raster"

C4_PrimaryUsableNoFallback ==
  /\ handler = "p003" /\ Finished
  /\ \E i \in 1..Len(calls) : IsCall(i, "openai", "raster") /\ calls[i].out = "ok_url"
  /\ \E i \in 1..Len(calls) : calls[i].p = "img2svg"
  /\ LastResp.status = 200

\* Answers of img2svg that leave ownerUrl empty.
VectorizerFailures == {"throw", "arr0", "arrnull", "null", "blank"}

\* img2svg was attempted before call i and failed or gave no image.
VectorizerFailedBefore(i) ==
  \E j \in 1..(i-1) : calls[j].p = "img2svg" /\ calls[j].out \in VectorizerFailures

\* C5 as stated: in part_003 img2svg is attempted before Recraft in every
\* request.
C5_VectorizerAlwaysFirst ==
  handler = "p003" =>
    \A i \in 1..Len(calls) :
      calls[i].p = "recraft" => \E j \in 1..(i-1) : calls[j].p = "img2svg"

\* C5: in part_003 img2svg is attempted before Recraft whenever there is an
\* input image for it (the customer image, a public reference URL or a Flux
\* rendering of the reference), and then Recraft is called only after the
\* img2svg attempt failed or returned no image; with no input image Recraft
\* is called without an img2svg attempt.
C5_VectorizerFirstWhenInput ==
  handler = "p003" =>
    \A i \in 1..Len(calls) :
      calls[i].p = "recraft" =>
        /\ Truthy(loc.vecInput) => VectorizerFailedBefore(i)
        /\ ~Truthy(loc.vecInput) => ~Called("img2svg")

C5_RecraftAfterVectorizerFailed ==
  /\ handler = "p003" /\ Finished
  /\ \E i \in 1..Len(calls) :
       /\ calls[i].p = "recraft"
       /\ \E j \in 1..(i-1) : calls[j].p = "img2svg" /\ calls[j].out = "throw"

\* Both providers of the raster chain failed in the request.
BothRasterFailed ==
  /\ \E i \in 1..Len(calls) :
       IsCall(i, "openai", "raster") /\ calls[i].out \in {"neterr", "nonok"}
  /\ \E i \in 1..Len(calls) : IsCall(i, "flux", "raster") /\ calls[i].out = "throw"

\* C6: when the primary and the fallback of a path both fail and the
\* request is answered with an error, the error response carries the
\* underlying error of both providers.
C6_BothErrorsReported ==
  (handler \in {"v2plus", "p003"} /\ Responded /\ BothRasterFailed
     /\ LastResp.status >= 400) =>
    {"openai", "flux"} \subseteq LastResp.errs

\* Every provider attempted for the request failed: it threw or returned an
\* error payload.
AllAttemptsFailed ==
  /\ Len(calls) > 0
  /\ \A i \in 1..Len(calls) : calls[i].out \in {"throw", "neterr", "nonok"}

\* C7: if every provider attempted for a request fails, the response has an
\* error status and carries no image field with a value.
C7_ErrorWhenAllFail ==
  (handler \in {"p007", "v2plus"} /\ Responded /\ AllAttemptsFailed) =>
    /\ LastResp.status >= 400
    /\ ~Present(LastResp.image) /\ ~Present(LastResp.owner) /\ ~Present(LastResp.customer)

\* C8: every 200 response of an /api/generate handler carries at least one
\* present image reference among its owner and customer fields.
C8_SuccessHasImage ==
  (handler \in {"v2plus", "p003", "p002"} /\ Responded /\ LastResp.status = 200) =>
    (Present(LastResp.owner) \/ Present(LastResp.customer))

\* The provider call returned successfully with no image entry.
ReturnedNoImage ==
  \E i \in 1..Len(calls) : calls[i].out \in {"arr0", "ok_empty"}

\* C9: for a request with a prompt and no reference image, when the provider
\* call returns successfully but with no image entry the response is an
\* error, not a 200 whose image or customer field is null or undefined.
C9_NoEmptySuccess ==
  (handler \in {"server", "p000", "p006"} /\ req.prompt /\ req.ref = "none"
     /\ Responded /\ ReturnedNoImage) =>
    LastResp.status >= 400

\* C10: for target owner the success response contains an owner image and
\* no customer image and only the vector provider is called; for target
\* customer it contains a customer image and no owner image and only the
\* raster provider is called.
C10_ExactlyRequestedTarget ==
  (handler \in {"p004", "dc_api"} /\ Responded /\ LastResp.status = 200) =>
    /\ req.mode = "owner" =>
         /\ Present(LastResp.owner) /\ ~Present(LastResp.customer)
         /\ \A i \in 1..Len(calls) : calls[i].path = "vector"
    /\ req.mode = "customer" =>
         /\ Present(LastResp.customer) /\ ~Present(LastResp.owner)
         /\ \A i \in 1..Len(calls) : calls[i].path = "raster"


\* The raster image a success response returns: the customer field, or the
\* image field of a handler that answers with a single image.
ReturnedRaster(r) == IF Present(r.customer) THEN r.customer ELSE r.image

\* C11: in every success response the provenance field (model.raster in
\* v2+, used.raster_primary in part_003, used in part_007) names exactly the
\* provider that produced the returned raster image; when the primary failed
\* or returned no image and the fallback produced it, it names the fallback.
C11_ProvenanceNamesProducer ==
  (handler \in {"v2plus", "p003", "p007"} /\ Responded /\ LastResp.status = 200
     /\ Present(ReturnedRaster(LastResp))) =>
    LastResp.used = ReturnedRaster(LastResp).src

\* C12: for a request with a reference image and no prompt text the owner
\* and customer fields of the response equal the reference unmodified and
\* no outbound provider call is made.
C12_EchoReference ==
  (handler \in {"v2plus", "p003", "p002"} /\ env.replicateToken
     /\ ~req.prompt /\ req.ref # "none") =>
    /\ \A i \in 1..Len(calls) : calls[i].p = "download"
    /\ Responded =>
         /\ LastResp.status = 200
         /\ LastResp.owner.src = "ref"
         /\ LastResp.customer.src = "ref"

\* C13: a POST /api/generate request with neither a prompt nor a reference
\* image is answered 400 and no outbound provider call is made for it.
C13_InvalidRequestRejected ==
  (handler \in {"v2plus", "p002", "sr_v1"} /\ env.replicateToken
     /\ ~req.prompt /\ req.ref = "none") =>
    /\ Len(calls) = 0
    /\ Responded => LastResp.status = 400


\* Answers with which an outbound call fails.
FailureOutcomes ==
  {"throw", "neterr", "nonok", "failed", "canceled", "timeout", "client_timeout"}

\* A provider call of the request failed.
ProviderFailed == \E i \in 1..Len(calls) : calls[i].out \in FailureOutcomes

\* The request's input is well-formed for the handler: what it requires is
\* present and the target or mode is one it serves.
WellFormed ==
  CASE handler = "p004"   -> req.prompt /\ req.mode \in {"owner", "customer"}
    [] handler = "server" -> req.prompt /\ req.mode \in {"customer", "both"}
    [] OTHER              -> TRUE

\* C14: a request with well-formed input whose provider call fails is
\* answered 500 or 502, never 4xx; 400 is produced only for malformed input.
C14_ProviderFailureIs5xx ==
  (handler \in {"p004", "sr_v1", "server"} /\ Responded) =>
    /\ (WellFormed /\ ProviderFailed) => LastResp.status \in {500, 502}
    /\ LastResp.status = 400 => ~WellFormed


\* The handlers that poll a prediction, and the bound of each polling
\* routine in status fetches (pollReplicate, the inline loop) or intervals
\* of elapsed time (waitForPrediction).
PollingHandlers == {"p002", "sr_v1", "sr_v3"}

\* The call whose prediction was polled last.
PolledCalls == {i \in 1..Len(calls) : calls[i].p \in {"recraft", "flux", "replicate"}}
LastPolled == calls[CHOOSE i \in PolledCalls : \A j \in PolledCalls : j <= i]

\* The image the handler took from the polled prediction.
PolledImage ==
  IF handler = "p002" /\ LastPolled.p = "recraft" THEN loc.vector ELSE loc.raster

\* The polling routine has returned to the handler.
PollReturned ==
  CASE handler = "p002"  -> pc \notin {"p2_owner_poll", "p2_customer_poll"}
    [] handler = "sr_v1" -> pc # "sr_poll"
    [] OTHER             -> pc = "done"

\* C15: if the prediction reports a non-terminal status on its first N-1
\* status fetches and succeeded on the N-th, N below the poll bound, the
\* polling routine returns the prediction of that N-th fetch (the handler's
\* image is taken from its output) and performs no further status fetch.
C15_ReturnsOnSuccess ==
  (handler \in PollingHandlers /\ loc.poll.last = "succeeded") =>
    /\ ~loc.poll.stale
    /\ PollReturned =>
         /\ LastPolled.out \in OutputShapes
         /\ PolledImage = FirstIfArray(RunValue(LastPolled.p, LastPolled.out))

C15_SucceededOnThirdFetch ==
  /\ handler = "sr_v3" /\ Finished
  /\ loc.poll.last = "succeeded" /\ loc.poll.fetches = 3
  /\ LastResp.status = 200 /\ LastResp.image = Val("url", "replicate")

\* The polling of the request ended because its bound was reached.
PollExhausted ==
  \E i \in 1..Len(calls) : calls[i].out = "timeout"

\* C16: if the prediction never leaves a non-terminal status the polling
\* routine fails with a timeout error at the configured bound and not later:
\* no status fetch or sleep is started once the bound is reached, and the
\* failure is reported as a timeout.
C16_TimeoutAtBound ==
  (handler \in PollingHandlers /\ PollExhausted /\ Responded) =>
    /\ ~loc.poll.late
    /\ LastResp.status >= 400
    /\ LastResp.detail = "timeout"

\* C17: every polling loop stops at the first terminal status it observes
\* (succeeded, failed or canceled) and never fetches the status again.
C17_StopsAtTerminal ==
  handler \in PollingHandlers => ~loc.poll.stale

\* C18: when polling ends on failed or canceled, the operation fails with a
\* provider error that carries the provider's own error detail, not merely
\* the status word.
C18_FailureCarriesDetail ==
  (handler \in PollingHandlers /\ Responded
     /\ \E i \in 1..Len(calls) : calls[i].out \in {"failed", "canceled"}) =>
    /\ LastResp.status >= 400
    /\ LastResp.detail = "provider"


----------------------------------------------------------------------------
(* Progress.  The handler's own steps are taken whenever they can be; the  *)
(* answer of a provider to a call that has no client timeout may never     *)
(* come.  Every axios call of src/server_replicate.js has a timeout, so    *)
(* the steps of its first two servers always come; fetch and replicate.run *)
(* have none.                                                              *)

HandlerSteps ==
  \/ V2Receive \/ V2Vector \/ V2Raster \/ V2OpenAI \/ V2Fallback \/ V2Respond
  \/ DcReceive \/ P4Receive \/ SrvReceive \/ SdxlReceive
  \/ P7Receive \/ P7Flux \/ P7OpenAI
  \/ P2Receive \/ P2PollTimeout \/ P2Customer \/ P2Flux \/ P2Respond
  \/ P3Receive \/ P3Customer \/ P3OpenAI \/ P3FluxCheck \/ P3Owner
  \/ P3Vectorize \/ P3RecraftCheck \/ P3Respond
  \/ SrNext
  \/ V3Receive \/ V3Create \/ V3AfterLoop
  \/ NextRequest

FairSpec == Spec /\ WF_vars(HandlerSteps)

\* C19: every accepted request eventually receives an HTTP response even if
\* a provider never answers an outbound call.
C19_EveryRequestAnswered == (pc = "start") ~> Responded


\* C20: no exception goes unhandled.  In server.js, in the SDXL server of
\* index.js and in the v2+ handler, whatever the request carries and whatever
\* the providers answer, the handler never ends in a rejection that nothing
\* caught.
C20_NoUnhandledException ==
  handler \in {"server", "sdxl", "v2plus"} => pc # "unhandled"


\* Some call of the request was made on the given path.
PathAttempted(path) == \E i \in 1..Len(calls) : calls[i].path = path

\* C21: the vector and the raster path of one request are independent.  In
\* part_002, part_003 and v2+, a finished request for both images that
\* reached the providers has attempted both paths, whatever the outcome of
\* either, and the input of the vector path is not the product of the raster
\* path.
C21_PathsIndependent ==
  (/\ handler \in {"p002", "p003", "v2plus"}
   /\ Finished /\ req.mode = "both"
   /\ PathAttempted("vector") \/ PathAttempted("raster"))
  => /\ PathAttempted("vector") /\ PathAttempted("raster")
     /\ ~(Truthy(loc.vecInput) /\ loc.vecInput = loc.raster)


----------------------------------------------------------------------------
(* normalizeAny of src/index.js and src/unnamed/part_001 (the same text)   *)
(* and deepFindFirstImage of src/unnamed/part_004, over provider outputs   *)
(* as nested values: strings, arrays and objects.  An object is the        *)
(* sequence of its values in the order of Object.keys.                     *)

\* A string by what the patterns see in it: "data" (starts with
\* data:image/), "http" (an http(s) URL ending in an image extension), "svg"
\* (text beginning with <svg), "noise" (matches no pattern), "empty" ("");
\* "svgdata" is the data URL that re-encodes SVG text.  id tells strings of
\* one kind apart.
Str(kind, id) == [t |-> "str", kind |-> kind, id |-> id, xs |-> << >>]
Arr(xs)       == [t |-> "arr", kind |-> "", id |-> 0, xs |-> xs]
Obj(xs)       == [t |-> "obj", kind |-> "", id |-> 0, xs |-> xs]
JsNull        == [t |-> "null", kind |-> "", id |-> 0, xs |-> << >>]

\* !v
Falsy(v) == v.t = "null" \/ (v.t = "str" /\ v.kind = "empty")

\* The first result that is not null, null when there is none:
\* for (...) { const r = ...; if (r) return r; }
FirstHit(rs) ==
  IF \E i \in 1..Len(rs) : rs[i] # JsNull
    THEN rs[CHOOSE i \in 1..Len(rs) :
              rs[i] # JsNull /\ \A j \in 1..(i - 1) : rs[j] = JsNull]
    ELSE JsNull

\* Variant of tryStr that accepts no string.
tryStrNothing(s) == JsNull

\* tryStr(s) of normalizeAny
tryStr(s) ==
  IF Falsy(s) \/ s.t # "str" THEN JsNull
  ELSE CASE s.kind \in {"data", "http"} -> s
         [] s.kind = "svg"              -> Str("svgdata", s.id)
         [] OTHER                       -> JsNull

\* dfs(v) of normalizeAny: in an object the string values are tried first,
\* all of them, and only then are the values descended into.
RECURSIVE dfs(_)
dfs(v) ==
  IF Falsy(v) THEN JsNull
  ELSE IF v.t = "str" THEN tryStr(v)
  ELSE IF v.t = "arr" THEN FirstHit([i \in 1..Len(v.xs) |-> dfs(v.xs[i])])
  ELSE LET maybe == FirstHit([i \in 1..Len(v.xs) |-> tryStr(v.xs[i])])
       IN IF maybe # JsNull THEN maybe
          ELSE FirstHit([i \in 1..Len(v.xs) |-> dfs(v.xs[i])])

\* deepFindFirstImage(v) of part_004: data:image/ strings and image URLs,
\* arrays and objects both in order.
RECURSIVE deepFind(_)
deepFind(v) ==
  IF Falsy(v) THEN JsNull
  ELSE IF v.t = "str"
    THEN IF v.kind \in {"data", "http"} THEN v ELSE JsNull
  ELSE FirstHit([i \in 1..Len(v.xs) |-> deepFind(v.xs[i])])

\* The search the specification describes: depth-first, pre-order, arrays by
\* index and objects by key order, a value descended into before its later
\* siblings are visited; the first string that matches wins.
RECURSIVE ReferenceSearch(_)
ReferenceSearch(v) ==
  IF Falsy(v) THEN JsNull
  ELSE IF v.t = "str" THEN tryStr(v)
  ELSE FirstHit([i \in 1..Len(v.xs) |-> ReferenceSearch(v.xs[i])])

\* Sequences over S of length 1..n.
SeqsUpTo(S, n) == UNION {[1..k -> S] : k \in 1..n}

\* Provider outputs: strings, and arrays and objects of at most TreeWidth
\* values nested at most TreeDepth deep.
TreeWidth == 2
TreeDepth == 2
TreeLeaves ==
  {Str("data", 1), Str("data", 2), Str("http", 1), Str("svg", 1),
   Str("noise", 1), Str("empty", 0), JsNull}

RECURSIVE Trees(_)
Trees(d) ==
  IF d = 0 THEN TreeLeaves
  ELSE LET sub == Trees(d - 1) IN
       sub \cup {Arr(xs) : xs \in SeqsUpTo(sub, TreeWidth)}
           \cup {Obj(xs) : xs \in SeqsUpTo(sub, TreeWidth)}

\* The state of a run that applies a function to one output: the function,
\* its argument (loc.out) and its result (loc.img).
FnInit(fns, outs) ==
  /\ handler \in fns
  /\ loc \in [out : outs, img : {JsNull}]
  /\ pc = "call"
  /\ env = [openaiKey |-> FALSE, replicateToken |-> TRUE, forceFallback |-> FALSE]
  /\ req = [prompt |-> TRUE, text |-> TRUE, ref |-> "none", mode |-> "both"]
  /\ calls = << >> /\ logged = {} /\ resp = << >> /\ served = 0
  /\ disk = {} /\ now = 0

\* const img = normalizeAny(out)
NormalizeAnyCall ==
  /\ handler = "normalizeAny" /\ pc = "call"
  /\ loc' = [loc EXCEPT !.img = dfs(loc.out)]
  /\ pc' = "ret"
  /\ UNCHANGED <<disk, now, served, handler, env, req, calls, logged, resp>>

\* deepFindFirstImage(data)
DeepFindCall ==
  /\ handler = "deepFindFirstImage" /\ pc = "call"
  /\ loc' = [loc EXCEPT !.img = deepFind(loc.out)]
  /\ pc' = "ret"
  /\ UNCHANGED <<disk, now, served, handler, env, req, calls, logged, resp>>

DfsInit == FnInit({"normalizeAny"}, Trees(TreeDepth))
DfsNext == NormalizeAnyCall
DfsSpec == DfsInit /\ [][DfsNext]_vars

\* C22: normalizeAny returns the first matching string in depth-first
\* pre-order of the provider output: for every bounded nested input its
\* result equals that of the reference depth-first search.
C22_FirstInPreOrder ==
  (handler = "normalizeAny" /\ pc = "ret") => loc.img = ReferenceSearch(loc.out)


\* Outputs of replicate.run in which no string matches an image pattern:
\* [], [null] and null.
NoImageOutcomes == {"arr0", "arrnull", "null"}

\* C23: when the provider output contains no string matching any image
\* pattern, generateVector and generateRealistic fail, so that the
\* disk-cache handler answers with an error status.
C23_NoImageIsError ==
  (/\ handler = "dc_api" /\ Finished /\ Len(calls) > 0
   /\ calls[Len(calls)].p \in {"recraft", "flux"}
   /\ calls[Len(calls)].out \in NoImageOutcomes)
  => LastResp.status >= 400


\* What may stand before or after a value inside a container: nothing, a
\* noise string, an object holding a noise string.
NoiseRuns ==
  {<< >>, <<Str("noise", 1)>>, <<Obj(<<Str("noise", 2)>>)>>}

\* Nested values that hold the data URI Str("data", 1) exactly d levels deep
\* and otherwise only noise strings, in any position around it.
RECURSIVE Buried(_)
Buried(d) ==
  IF d = 0 THEN {Str("data", 1)}
  ELSE LET inner == Buried(d - 1) IN
       {Obj(b \o <<v>> \o a) : b \in NoiseRuns, v \in inner, a \in NoiseRuns}
         \cup {Arr(b \o <<v>> \o a) : b \in NoiseRuns, v \in inner, a \in NoiseRuns}

\* The depth at which the data URI lies.
BuriedDepth == 3

BuriedInit == FnInit({"normalizeAny", "deepFindFirstImage"}, Buried(BuriedDepth))
BuriedNext == NormalizeAnyCall \/ DeepFindCall
BuriedSpec == BuriedInit /\ [][BuriedNext]_vars

\* C24: given a nested value that contains exactly one data:image URI three
\* levels deep and otherwise only strings matching no image pattern,
\* normalizeAny and deepFindFirstImage return exactly that data URI,
\* unchanged, wherever the noise strings stand.
C24_BuriedDataUriFound ==
  pc = "ret" => loc.img = Str("data", 1)

\* The data URI was returned from an object whose first value is a noise
\* string and whose last value is an object of noise.
C24_FoundBehindNoise ==
  /\ pc = "ret" /\ handler = "normalizeAny"
  /\ loc.out.t = "obj" /\ Len(loc.out.xs) = 3
  /\ loc.out.xs[1] = Str("noise", 1)
  /\ loc.out.xs[2].t = "obj" /\ Len(loc.out.xs[2].xs) = 3
  /\ loc.img = Str("data", 1)


----------------------------------------------------------------------------
(* POST /generate of the disk-cache backend (src/index.js) and of          *)
(* src/unnamed/part_001: generate, save under outputs/, answer with the    *)
(* public URL.  Here the process serves the requests of Clients at the     *)
(* same time: req, pc, loc, calls and resp hold one value per request, and *)
(* a step is what one request runs between two awaits.                     *)

Clients == {"c1", "c2"}

\* The two backends that have the endpoint.
GenHandlers == {"dc_gen", "p001_gen"}

\* Characters of a prompt, and String(s).toLowerCase() on them.
Lower(ch) == IF ch = "C" THEN "c" ELSE ch
\* \w or "-"
IsWordChar(ch) == ch \in {"c", "a", "t", "C", "1", "_", "-"}

\* sanitizeName: .slice(0, 80)
NameLimit == 80

\* .replace(/[^\w\-]+/g,'_').replace(/_+/g,'_') on a lower-cased name: every
\* run of other characters and underscores becomes one underscore.
RECURSIVE Squeeze(_)
Squeeze(s) ==
  IF s = << >> THEN << >>
  ELSE LET ch   == IF IsWordChar(Head(s)) THEN Head(s) ELSE "_"
           rest == Squeeze(Tail(s))
       IN IF ch = "_" /\ rest # << >> /\ Head(rest) = "_"
            THEN rest
            ELSE <<ch>> \o rest

sanitizeName(s) ==
  LET name == Squeeze([i \in 1..Len(s) |-> Lower(s[i])])
  IN SubSeq(name, 1, IF Len(name) < NameLimit THEN Len(name) ELSE NameLimit)

\* The prompts told apart: "Cat", "cat", "cat !".
Prompts == {<<"C", "a", "t">>, <<"c", "a", "t">>, <<"c", "a", "t", " ", "!">>}

\* Request bodies of /generate.  A prompt that is not a string is the
\* number 1.
GenReqs ==
  {r \in [prompt : BOOLEAN, text : BOOLEAN, mode : {"vector", "customer", "other"},
          name : Prompts \cup {<<"1">>, << >>}] :
     /\ r.prompt /\ r.text => r.name \in Prompts
     /\ r.prompt /\ ~r.text => r.name = <<"1">>
     /\ ~r.prompt => r.text /\ r.name = << >> /\ r.mode = "vector"}

\* A file under outputs/: `${sanitizeName(baseName)}_${stamp}.${ext}` in the
\* directory of the day (one day here).
FilePath(name, stamp, ext) == [name |-> name, stamp |-> stamp, ext |-> ext]
NoPath == FilePath(<< >>, 0, "none")

GenLocInit == [image |-> Null, ext |-> "none", file |-> NoPath, saved |-> NoPath]

\* The last second of the clock.
MaxClock == 1

GenInit ==
  /\ handler \in GenHandlers
  /\ env \in {e \in Envs : e.replicateToken /\ ~e.forceFallback
                           /\ (handler = "p001_gen" => ~e.openaiKey)}
  /\ req \in [Clients -> GenReqs]
  /\ pc = [c \in Clients |-> "start"]
  /\ loc = [c \in Clients |-> GenLocInit]
  /\ calls = [c \in Clients |-> << >>]
  /\ resp = [c \in Clients |-> << >>]
  /\ logged = {}
  /\ served = 0
  /\ disk = {}
  /\ now = 0

\* res.status(s).json(...) of /generate: source_url and public_url.
GenResponse(s, source, path) == [status |-> s, source_url |-> source, public_url |-> path]

GenSend(c, r) == resp' = [resp EXCEPT ![c] = Append(@, r)]
GenIssue(c, p, path) == calls' = [calls EXCEPT ![c] = Append(@, Call(p, path))]
GenAnswer(c, o) == calls' = [calls EXCEPT ![c][Len(calls[c])].out = o]

\* catch(e): res.status(500).json({ error })
GenCatch(c) ==
  /\ GenSend(c, GenResponse(500, Undef, NoPath))
  /\ pc' = [pc EXCEPT ![c] = "done"]

\* What the handler does with the target: index.js generates a vector for
\* 'vector' and a raster for anything else; part_001 rejects what is neither
\* 'vector' nor 'real' / 'customer'.
GenTarget(r) ==
  IF r.mode = "vector" THEN "vector"
  ELSE IF r.mode = "customer" \/ handler = "dc_gen" THEN "real"
  ELSE "invalid"

\* Variant of the prompt check that lets every request through.
GenMissingPromptNever(r) == FALSE

\* if(!prompt) in index.js; if (!prompt || typeof prompt !== 'string') in part_001
GenMissingPrompt(r) == ~r.prompt \/ (handler = "p001_gen" /\ ~r.text)

\* The provider generateRealistic calls in the backend.
GenRasterProvider == IF handler = "dc_gen" /\ env.openaiKey THEN "openai" ELSE "flux"

GenReceive(c) ==
  /\ pc[c] = "start"
  /\ IF GenMissingPrompt(req[c]) \/ GenTarget(req[c]) = "invalid"
       THEN /\ GenSend(c, GenResponse(400, Undef, NoPath))
            /\ pc' = [pc EXCEPT ![c] = "done"]
            /\ UNCHANGED calls
       ELSE /\ IF GenTarget(req[c]) = "vector"
                 THEN GenIssue(c, "recraft", "vector")
                 ELSE GenIssue(c, GenRasterProvider, "raster")
            /\ pc' = [pc EXCEPT ![c] = "gen_wait"]
            /\ UNCHANGED resp
  /\ UNCHANGED <<disk, now, served, handler, env, req, loc, logged>>

\* saveContentAsFile is reached when the generator returned:
\* const r = await generateVector(...); const saved = await saveContentAsFile(...)
GenSaves(result) == result # Thrown

\* What saveContentAsFile does with contentOrUrl: download it ("http"),
\* decode or encode it ("bytes"), or throw ("unsupported").
GenContent(image, ext) ==
  IF image.k = "url" THEN "http"
  ELSE IF image.k \in {"dataurl", "databad"} THEN "bytes"
  ELSE IF IsString(image) /\ ext = "svg" THEN "bytes"
  ELSE "unsupported"

\* The generator of request c returns result; on a value saveContentAsFile
\* starts: it reads the clock, fixes the path and looks at the content.
GenGenerated(c, result, ext) ==
  IF ~GenSaves(result)
    THEN GenCatch(c) /\ UNCHANGED loc
    ELSE LET file == FilePath(sanitizeName(req[c].name), now, ext) IN
         /\ loc' = [loc EXCEPT ![c].image = result, ![c].ext = ext, ![c].file = file]
         /\ CASE GenContent(result, ext) = "http" ->
                   pc' = [pc EXCEPT ![c] = "gen_download"] /\ UNCHANGED resp
              [] GenContent(result, ext) = "bytes" ->
                   pc' = [pc EXCEPT ![c] = "gen_write"] /\ UNCHANGED resp
              [] OTHER -> GenCatch(c)

GenVectorReturn(c) ==
  /\ pc[c] = "gen_wait" /\ GenTarget(req[c]) = "vector"
  /\ \E o \in VecOutcomes :
       /\ GenAnswer(c, o)
       /\ GenGenerated(c, generateVector(o), "svg")
  /\ UNCHANGED <<disk, now, served, handler, env, req, logged>>

GenRasterReturn(c) ==
  /\ pc[c] = "gen_wait" /\ GenTarget(req[c]) = "real"
  /\ \/ /\ GenRasterProvider = "openai"
        /\ \E o \in HttpOutcomes :
             /\ GenAnswer(c, o)
             /\ GenGenerated(c, generateRealisticOpenAI(o), "png")
     \/ /\ GenRasterProvider = "flux"
        /\ \E o \in RunOutcomes :
             /\ GenAnswer(c, o)
             /\ GenGenerated(c, generateRealisticFlux(o), "png")
  /\ UNCHANGED <<disk, now, served, handler, env, req, logged>>

\* const r=await fetch(contentOrUrl); buf=Buffer.from(await r.arrayBuffer())
GenDownload(c) ==
  /\ pc[c] = "gen_download"
  /\ GenIssue(c, "download", "aux")
  /\ pc' = [pc EXCEPT ![c] = "gen_download_wait"]
  /\ UNCHANGED <<disk, now, served, handler, env, req, loc, logged, resp>>

\* The fetch rejects, or resolves with a body (whatever the status).
GenDownloadReturn(c) ==
  /\ pc[c] = "gen_download_wait"
  /\ \E o \in DlOutcomes :
       /\ GenAnswer(c, o)
       /\ IF o = "neterr"
            THEN GenCatch(c)
            ELSE pc' = [pc EXCEPT ![c] = "gen_write"] /\ UNCHANGED resp
  /\ UNCHANGED <<disk, now, served, handler, env, req, loc, logged>>

\* The file at path now holds the bytes of request c.
Written(files, path, c) ==
  LET old == {f \in files : f.path = path} IN
  (files \ old) \cup
    {[path |-> path, by |-> c,
      writes |-> IF old = {} THEN 1 ELSE (CHOOSE f \in old : TRUE).writes + 1]}

\* await fs.writeFile(full, buf); return { full, public_url }; res.json(...)
GenWrite(c) ==
  /\ pc[c] = "gen_write"
  /\ disk' = Written(disk, loc[c].file, c)
  /\ loc' = [loc EXCEPT ![c].saved = loc[c].file]
  /\ GenSend(c, GenResponse(200, loc[c].image, loc[c].file))
  /\ pc' = [pc EXCEPT ![c] = "done"]
  /\ UNCHANGED <<now, served, handler, env, req, calls, logged>>

\* A second passes.
Tick ==
  /\ now < MaxClock
  /\ now' = now + 1
  /\ UNCHANGED <<disk, served, handler, env, req, pc, loc, calls, logged, resp>>

GenNext ==
  \/ \E c \in Clients :
       \/ GenReceive(c) \/ GenVectorReturn(c) \/ GenRasterReturn(c)
       \/ GenDownload(c) \/ GenDownloadReturn(c) \/ GenWrite(c)
  \/ Tick

GenSpec == GenInit /\ [][GenNext]_vars


\* Request c was answered with status s.
GenAnswered(c, s) == pc[c] = "done" /\ Len(resp[c]) > 0 /\ resp[c][1].status = s

\* C25: any two saveContentAsFile calls, those of two concurrent /generate
\* requests included, write to distinct paths: the file behind a public_url
\* that was returned to a caller still holds that caller's bytes.
C25_ReturnedFileKept ==
  \A c \in Clients :
    GenAnswered(c, 200) =>
      \E f \in disk : f.path = resp[c][1].public_url /\ f.by = c /\ f.writes = 1


\* Request c has written a file under outputs/.
GenWrote(c) == loc[c].saved # NoPath \/ \E f \in disk : f.by = c

\* The provider call of request c failed: replicate.run rejected, the fetch
\* to OpenAI rejected or was answered with an error status.
GenProviderFailed(c) ==
  Len(calls[c]) > 0 /\ calls[c][1].out \in {"throw", "neterr", "nonok"}

C26_AtMostOneResponse == Len(resp) <= 1

\* part_007 answered once, from its third provider, after the first two had
\* failed.
C26_AnsweredOnceAfterFallbacks ==
  /\ handler = "p007" /\ Finished
  /\ Len(calls) = 3 /\ calls[1].out = "throw" /\ calls[2].out = "throw"
  /\ Len(resp) = 1 /\ LastResp.status = 200


----------------------------------------------------------------------------
(* The provider input of POST /api/generate: the reference image and the   *)
(* numeric parameters as the first two servers of src/server_replicate.js  *)
(* (the same text) and the v2+ backend of src/index.js compute them from   *)
(* the request body.  Numbers are counted in hundredths, so that 0.2 is 20 *)
(* and 28 is 2800.                                                         *)

\* JavaScript values of a body field: undefined (the field is missing), a
\* number, a numeric string, a string that is no number, the empty string;
\* and NaN, which arithmetic produces.
JsUndef   == [t |-> "undef", v |-> 0]
JsNum(v)  == [t |-> "num", v |-> v]
JsStr(v)  == [t |-> "str", v |-> v]
JsText    == [t |-> "text", v |-> 0]
JsEmpty   == [t |-> "empty", v |-> 0]
NaN       == [t |-> "nan", v |-> 0]

\* a || b
JsOr(a, b) ==
  IF a.t \in {"undef", "empty", "nan"} \/ (a.t = "num" /\ a.v = 0) THEN b ELSE a
\* a ?? b
JsCoalesce(a, b) == IF a.t = "undef" THEN b ELSE a

\* Number(x)
ToNumber(x) ==
  CASE x.t \in {"num", "str"} -> JsNum(x.v)
    [] x.t = "empty"          -> JsNum(0)
    [] OTHER                  -> NaN
\* parseInt(x, 10): the digits before the decimal point
ParseInt(x) ==
  CASE x.t \in {"num", "str"} ->
         JsNum(IF x.v >= 0 THEN (x.v \div 100) * 100 ELSE 0 - (((0 - x.v) \div 100) * 100))
    [] OTHER -> NaN
\* Math.min(a, b), Math.max(a, b): NaN if either is NaN
MathMin(a, b) ==
  IF a.t = "nan" \/ b.t = "nan" THEN NaN ELSE JsNum(IF a.v < b.v THEN a.v ELSE b.v)
MathMax(a, b) ==
  IF a.t = "nan" \/ b.t = "nan" THEN NaN ELSE JsNum(IF a.v > b.v THEN a.v ELSE b.v)

\* Math.max(0.0, Math.min(1.0, Number(req.body.strength ?? (refUrl ? 0.20 : 1.0))))
SrStrength(x, hasRef) ==
  MathMax(JsNum(0),
          MathMin(JsNum(100), ToNumber(JsCoalesce(x, JsNum(IF hasRef THEN 20 ELSE 100)))))
\* Math.max(12, Math.min(50, parseInt(req.body.steps || 28, 10)))
SrSteps(x) == MathMax(JsNum(1200), MathMin(JsNum(5000), ParseInt(JsOr(x, JsNum(2800)))))
\* Math.min(Math.max(Number(params?.steps || 4),1),4)
V2Steps(x) == MathMin(MathMax(ToNumber(JsOr(x, JsNum(400))), JsNum(100)), JsNum(400))

\* What a caller may supply for a numeric field: nothing, a number or a
\* numeric string (negative, zero, a fraction, in range, very large), text.
SuppliedNumbers == {0 - 100, 0, 50, 250, 1250, 2800, 99900}
Supplied ==
  {JsUndef, JsText, JsEmpty} \cup {JsNum(v) : v \in SuppliedNumbers}
                             \cup {JsStr(v) : v \in SuppliedNumbers}

\* Bodies of the requests: an uploaded file or none, and ref as a data URI
\* with a base64 payload ("data"), another data: string ("baddata"), an
\* http(s) URL ("http"), any other string ("other"), or missing ("none").
InputReqs ==
  [file : BOOLEAN, ref : {"none", "data", "baddata", "http", "other"},
   strength : Supplied, steps : Supplied]

\* Variant of the lookup in which ref is looked at before the upload.
SrRefSourceRefFirst(r) ==
  IF r.ref \in {"data", "baddata"} THEN "data"
  ELSE IF r.ref = "http" THEN "http"
  ELSE IF r.file THEN "file"
  ELSE "none"

\* if (req.file) ... else if (req.body.ref && /^data:/.test(req.body.ref)) ...
\* else if (req.body.ref && /^https?:\/\//i.test(req.body.ref)) ...
SrRefSource(r) ==
  IF r.file THEN "file"
  ELSE IF r.ref \in {"data", "baddata"} THEN "data"
  ELSE IF r.ref = "http" THEN "http"
  ELSE "none"

\* A field the input does not have.
Absent == [t |-> "absent", v |-> 0]

\* baseInput: num_inference_steps always, image and strength if (refUrl).
SrBaseInput(refUrl, r) ==
  [num_inference_steps |-> SrSteps(r.steps),
   image    |-> refUrl,
   strength |-> IF refUrl # "none" THEN SrStrength(r.strength, TRUE) ELSE Absent]

InputInit ==
  /\ handler \in {"sr_input", "v2_input"}
  /\ req \in {r \in InputReqs :
                handler = "v2_input" => ~r.file /\ r.ref = "none" /\ r.strength = JsUndef}
  /\ pc = "start"
  /\ loc = [refUrl |-> "none", input |-> Absent]
  /\ env = [openaiKey |-> TRUE, replicateToken |-> TRUE, forceFallback |-> FALSE]
  /\ calls = << >> /\ logged = {} /\ resp = << >> /\ served = 0
  /\ disk = {} /\ now = 0

\* 1) resolver imagen de referencia
InResolve ==
  /\ handler = "sr_input" /\ pc = "start"
  /\ CASE SrRefSource(req) = "http" ->
            /\ Issue("download", "aux")
            /\ pc' = "in_ref_wait"
            /\ UNCHANGED <<loc, resp>>
       [] SrRefSource(req) = "data" /\ req.ref = "baddata" ->
            \* dataUriToBuffer: throw new Error("Invalid data URI")
            /\ Send(Response(500, Undef, Undef, Undef, "none", {}))
            /\ pc' = "done"
            /\ UNCHANGED <<loc, calls>>
       [] OTHER ->
            /\ loc' = [loc EXCEPT !.refUrl = SrRefSource(req)]
            /\ pc' = "in_build"
            /\ UNCHANGED <<calls, resp>>
  /\ UNCHANGED <<disk, now, served, handler, env, req, logged>>

\* const buf = await fetchAsBuffer(req.body.ref)
InRefReturn ==
  /\ handler = "sr_input" /\ pc = "in_ref_wait"
  /\ \E o \in DlOutcomes :
       /\ Answer(o)
       /\ IF o = "ok"
            THEN /\ loc' = [loc EXCEPT !.refUrl = "http"]
                 /\ pc' = "in_build"
                 /\ UNCHANGED resp
            ELSE /\ Send(Response(IF o = "nonok" THEN 404 ELSE 500,
                                  Undef, Undef, Undef, "none", {}))
                 /\ pc' = "done"
                 /\ UNCHANGED loc
  /\ UNCHANGED <<disk, now, served, handler, env, req, logged>>

\* 2) parámetros comunes ... 4) baseInput; createPredictionByModel(modelId, baseInput)
InBuild ==
  /\ handler = "sr_input" /\ pc = "in_build"
  /\ loc' = [loc EXCEPT !.input = SrBaseInput(loc.refUrl, req)]
  /\ Issue("replicate", "raster")
  /\ pc' = "in_sent"
  /\ UNCHANGED <<disk, now, served, handler, env, req, logged, resp>>

\* const steps = ...; genFluxFallback: input = { prompt, steps }
V2Build ==
  /\ handler = "v2_input" /\ pc = "start"
  /\ loc' = [loc EXCEPT !.input =
               [num_inference_steps |-> V2Steps(req.steps), image |-> "none",
                strength |-> Absent]]
  /\ Issue("flux", "raster")
  /\ pc' = "in_sent"
  /\ UNCHANGED <<disk, now, served, handler, env, req, logged, resp>>

InputNext == InResolve \/ InRefReturn \/ InBuild \/ V2Build

InputSpec == InputInit /\ [][InputNext]_vars

\* n is a number from lo to hi (in hundredths).
Within(n, lo, hi) == n.t = "num" /\ lo <= n.v /\ n.v <= hi

\* C28: whatever the caller supplies for steps and strength, the value sent
\* to the provider is clamped: in server_replicate steps is an integer in
\* 12..50 and strength is in 0..1; in the v2+ backend steps is in 1..4.
C28_ParametersClamped ==
  pc = "in_sent" =>
    IF handler = "sr_input"
      THEN /\ Within(loc.input.num_inference_steps, 1200, 5000)
           /\ loc.input.num_inference_steps.v % 100 = 0
           /\ loc.input.strength # Absent => Within(loc.input.strength, 0, 100)
      ELSE Within(loc.input.num_inference_steps, 100, 400)

\* C29: in server_replicate the reference is resolved with precedence
\* uploaded file, data-URI ref, http(s) ref; the provider input has image
\* and strength if and only if a reference was resolved; a ref of any other
\* form is ignored and the request goes on as text-only generation.
C29_ReferencePrecedence ==
  handler = "sr_input" =>
    /\ pc = "in_sent" =>
         /\ loc.input.image =
              (IF req.file THEN "file"
               ELSE IF req.ref = "data" THEN "data"
               ELSE IF req.ref = "http" THEN "http" ELSE "none")
         /\ (loc.input.image # "none") <=> (loc.input.strength # Absent)
         /\ (loc.input.image # "none") <=> (req.file \/ req.ref \in {"data", "http"})
    /\ (~req.file /\ req.ref \in {"other", "none"}) =>
         /\ resp = << >>
         /\ \A i \in 1..Len(calls) : calls[i].p # "download"
         /\ pc = "in_sent" => loc.input.image = "none" /\ loc.input.strength = Absent

\* A request with an upload and an http ref: the upload is the image and
\* the ref was never fetched.
C29_UploadBeforeRef ==
  /\ handler = "sr_input" /\ pc = "in_sent"
  /\ req.file /\ req.ref = "http"
  /\ loc.input.image = "file" /\ loc.input.strength # Absent
  /\ Len(calls) = 1


----------------------------------------------------------------------------
(* Calls per provider model within one request.                            *)

\* The calls of the request made to provider p.
CallsTo(p) == {i \in 1..Len(calls) : calls[i].p = p}

\* The calls of the request that ask a provider model for an image; fetching
\* the reference image is not one of them.
GenerationCalls == {i \in 1..Len(calls) : calls[i].p # "download"}

\* C30: there are no retry loops.  In one request of the v2+ backend each of
\* Recraft, OpenAI and Flux is called at most once, hence at most 3
\* generation calls; in one request of part_003 every provider model is
\* called at most once except Flux, which is called at most twice, once for
\* the raster image and once for the vectorizer input, hence at most 5
\* generation calls.
C30_NoRetryLoops ==
  /\ handler = "v2plus" =>
       /\ \A p \in {"recraft", "openai", "flux"} : Cardinality(CallsTo(p)) <= 1
       /\ \A i \in GenerationCalls : calls[i].p \in {"recraft", "openai", "flux"}
       /\ Cardinality(GenerationCalls) <= 3
  /\ handler = "p003" =>
       /\ \A p \in {"openai", "img2svg", "recraft"} : Cardinality(CallsTo(p)) <= 1
       /\ Cardinality(CallsTo("flux")) <= 2
       /\ \A i, j \in CallsTo("flux") : i # j => calls[i].path # calls[j].path
       /\ \A i \in GenerationCalls :
            calls[i].p \in {"openai", "flux", "img2svg", "recraft"}
       /\ Cardinality(GenerationCalls) <= 5

\* A request of part_003 that made five generation calls, two of them to
\* Flux, and was answered.
C30_FiveCallsTwoFlux ==
  /\ handler = "p003" /\ Finished
  /\ Cardinality(GenerationCalls) = 5
  /\ Cardinality(CallsTo("flux")) = 2

====
